---- MODULE Spec2Model ----
(***************************************************************************)
(* A model of the in-memory file system of codes/module.cpp.               *)
(*                                                                         *)
(* The image is modelled as the source has it: one flat array `memory`,    *)
(* addressed in machine words, holding the superblock, the inode table     *)
(* and the data blocks.  Every structure the source overlays on the array  *)
(* by pointer casts (SuperBlock, Inode, DirectoryEntry, the free-list      *)
(* links, the indirect-block slots) is read and written here at the same   *)
(* offsets, so that aliasing between them behaves as in the program.       *)
(*                                                                         *)
(* The geometry is scaled down (the source has 1024 blocks of 1024 bytes,  *)
(* 128 inodes of 64 bytes, 10 direct addresses, 28-byte names, 32-bit      *)
(* unsigned and 8-bit char).  The relations between the sizes are kept:    *)
(*   INODE_SIZE = sizeof(unsigned) * (DIRECT_BLOCKS + 6)                   *)
(*   BLOCK_SIZE is a multiple of INODE_SIZE, and the inode table fills a   *)
(*   whole number of blocks                                                *)
(*   sizeof(DirectoryEntry) = MAX_FILENAME_LENGTH + sizeof(unsigned),      *)
(*   and BLOCK_SIZE is a multiple of it                                    *)
(*   a directory's direct blocks hold more entries than there are inodes   *)
(***************************************************************************)
EXTENDS Integers, Sequences, FiniteSets, TLC

(***************************************************************************)
(* Bounds of the model.                                                    *)
(***************************************************************************)
DIRECT_BLOCKS == 2
MAX_INODES == 6
DataBlocks == 6
InodesPerBlock == 2
NameFieldWords == 3
CharBits == 4
Now == 1000
MaxSteps == 4
MaxErrors == 1
MaxPairSteps == 6
MaxFileSteps == 3
MaxNameSteps == 4
MaxCopySteps == 6
MaxSessionSteps == 4
MaxSumSteps == 4
MaxRemoveSteps == 5
MaxFillSteps == 10
MaxExhaustSteps == 12
MaxEntrySteps == 4
MaxCraftSteps == 3
MaxInodeSteps == 3
MaxCdSteps == 4

(***************************************************************************)
(* Machine and layout constants.                                           *)
(***************************************************************************)
WordBytes == 4
CharMod == 2 ^ CharBits
UINT_MOD == CharMod ^ WordBytes
INODE_SIZE == WordBytes * (DIRECT_BLOCKS + 6)
BLOCK_SIZE == InodesPerBlock * INODE_SIZE
INODE_BLOCKS == (MAX_INODES * INODE_SIZE + BLOCK_SIZE - 1) \div BLOCK_SIZE
FIRST_DATA_BLOCK == 1 + INODE_BLOCKS
TOTAL_BLOCKS == FIRST_DATA_BLOCK + DataBlocks
MEMORY_SIZE == TOTAL_BLOCKS * BLOCK_SIZE
MAX_FILENAME_LENGTH == NameFieldWords * WordBytes
MemWords == MEMORY_SIZE \div WordBytes
BlockWords == BLOCK_SIZE \div WordBytes
InodeWords == INODE_SIZE \div WordBytes

\* struct SuperBlock, word offsets of its fields in block 0
SB_magic == 0
SB_blockSize == 1
SB_totalBlocks == 2
SB_freeBlocks == 3
SB_maxInodes == 4
SB_freeInodes == 5
SB_firstFreeBlock == 6
SB_firstFreeInode == 7
MAGIC == 305419896 % UINT_MOD

\* struct DirectoryEntry: char name[MAX_FILENAME_LENGTH]; unsigned inodeNumber
NameWords == MAX_FILENAME_LENGTH \div WordBytes
DirEntWords == NameWords + 1
SizeofDirectoryEntry == DirEntWords * WordBytes
EntriesPerBlock == BLOCK_SIZE \div SizeofDirectoryEntry
SlotsPerBlock == BLOCK_SIZE \div WordBytes

VARIABLES
  memory,             \* char* memory, as words
  currentInodeNumber, \* inode of the current directory
  currentPath,        \* the prompt's path, a sequence of tokens
  timeWords,          \* sizeof(time_t) in words: 1 or 2, fixed by the build
  crashed,            \* the process died on an access outside `memory`
  out,                \* what the last command did and printed
  steps,              \* number of commands run
  errors,             \* number of commands that reported an error
  disk,               \* the content of filesystem.dat, <<>> when there is no such file
  previous            \* the image when the last command started, where it is recorded

vars == <<memory, currentInodeNumber, currentPath, timeWords, crashed, out, steps,
         errors, disk, previous>>

(***************************************************************************)
(* struct Inode: unsigned type, size; time_t creationTime,                 *)
(* modificationTime; unsigned blockAddresses[DIRECT_BLOCKS];               *)
(* unsigned indirectBlock.  The offsets (in words) follow from the width   *)
(* of time_t; the struct is padded to a multiple of its alignment.         *)
(***************************************************************************)
OFF_type == 0
OFF_size == 1
OFF_ctime == 2
OFF_mtime == OFF_ctime + timeWords
OFF_addr == OFF_mtime + timeWords
OFF_ind == OFF_addr + DIRECT_BLOCKS
SizeofInodeWords == ((OFF_ind + 1 + timeWords - 1) \div timeWords) * timeWords

U(x) == x % UINT_MOD

\* byte offset of a block as the source computes it: unsigned * unsigned
BlockOff(b) == U(b * BLOCK_SIZE)
BlockInMem(b) == BlockOff(b) + BLOCK_SIZE <= MEMORY_SIZE
BlockBase(b) == BlockOff(b) \div WordBytes
\* memory + BLOCK_SIZE + inodeNum * INODE_SIZE: the product is unsigned
InodeBase(n) == (BLOCK_SIZE + U(n * INODE_SIZE)) \div WordBytes

\* `memory` is the sequence of the image's words: word w is memory[w + 1]
W(m, w) == m[w + 1]
Put(m, w, v) == [m EXCEPT ![w + 1] = v]
\* the image with the n words from word w on replaced by the sequence ws
PutWords(m, w, ws) == SubSeq(m, 1, w) \o ws \o SubSeq(m, w + Len(ws) + 1, Len(m))
Words(m, w, n) == SubSeq(m, w + 1, w + n)
Zeros(n) == SubSeq([k \in 1..n |-> 0], 1, n)

\* memset(memory + b * BLOCK_SIZE, 0, BLOCK_SIZE)
ZeroBlock(m, b) == PutWords(m, BlockBase(b), Zeros(BlockWords))

(***************************************************************************)
(* Block allocator.                                                        *)
(***************************************************************************)
\* superBlock->firstFreeBlock = *nextFree; superBlock->freeBlocks--
PopBlock(m, blockNum) ==
  Put(Put(m, SB_firstFreeBlock, W(m, BlockBase(blockNum))),
      SB_freeBlocks, U(W(m, SB_freeBlocks) - 1))

allocateBlock(m) ==
  IF W(m, SB_freeBlocks) = 0 \/ W(m, SB_firstFreeBlock) = 0
  THEN [m |-> m, ret |-> 0]
  ELSE IF W(m, SB_firstFreeBlock) >= TOTAL_BLOCKS
  THEN [m |-> m, ret |-> 0]
  ELSE [m |-> ZeroBlock(PopBlock(m, W(m, SB_firstFreeBlock)), W(m, SB_firstFreeBlock)),
        ret |-> W(m, SB_firstFreeBlock)]

deallocateBlock(m, blockNum) ==
  IF blockNum < FIRST_DATA_BLOCK \/ blockNum >= TOTAL_BLOCKS
  THEN m
  ELSE Put(Put(Put(m, BlockBase(blockNum), W(m, SB_firstFreeBlock)),
               SB_firstFreeBlock, blockNum),
           SB_freeBlocks, U(W(m, SB_freeBlocks) + 1))

(***************************************************************************)
(* Inode I/O: memcpy of sizeof(Inode) bytes from/to the inode's slot.      *)
(* A local `Inode` is a sequence of SizeofInodeWords words.                *)
(***************************************************************************)
Fld(ino, off) == ino[off + 1]
SetFld(ino, off, v) == [ino EXCEPT ![off + 1] = v]

readInode(m, inodeNum) ==
  IF inodeNum >= MAX_INODES
  THEN Zeros(SizeofInodeWords)
  ELSE Words(m, InodeBase(inodeNum), SizeofInodeWords)

writeInode(m, inodeNum, ino) ==
  IF inodeNum >= MAX_INODES
  THEN m
  ELSE PutWords(m, InodeBase(inodeNum), ino)

\* time(nullptr) stored in a time_t field
TimeT(t) == <<t>> \o Zeros(timeWords - 1)
SetTime(ino, off) == PutWords(ino, off, TimeT(Now))

(***************************************************************************)
(* Inode allocator.  The source does not range-check the head of the free  *)
(* list.  When the inode it names lies outside `memory`, the read of its   *)
(* link yields `wild`, the writes to it are lost and `oob` is set.         *)
(***************************************************************************)
InodeInMem(n) == InodeBase(n) + SizeofInodeWords <= MemWords

\* superBlock->firstFreeInode = inode->indirectBlock; superBlock->freeInodes--
PopInode(m, next) ==
  Put(Put(m, SB_firstFreeInode, next), SB_freeInodes, U(W(m, SB_freeInodes) - 1))

\* type = 0, size = 0, the two times = now, blockAddresses = 0, indirectBlock = 0
ClearInode(m, base) ==
  Put(PutWords(m, base, <<0, 0>> \o TimeT(Now) \o TimeT(Now) \o Zeros(DIRECT_BLOCKS)),
      base + OFF_ind, 0)

AllocateAt(m, inodeNum, wild) ==
  IF InodeInMem(inodeNum)
  THEN [m |-> ClearInode(PopInode(m, W(m, InodeBase(inodeNum) + OFF_ind)),
                         InodeBase(inodeNum)),
        ret |-> inodeNum, oob |-> FALSE]
  ELSE [m |-> PopInode(m, wild), ret |-> inodeNum, oob |-> TRUE]

allocateInode(m, wild) ==
  IF W(m, SB_freeInodes) = 0 \/ W(m, SB_firstFreeInode) = 0
  THEN [m |-> m, ret |-> MAX_INODES, oob |-> FALSE]
  ELSE AllocateAt(m, W(m, SB_firstFreeInode), wild)

deallocateInode(m, inodeNum) ==
  IF inodeNum >= MAX_INODES
  THEN m
  ELSE Put(Put(Put(m, InodeBase(inodeNum) + OFF_ind, W(m, SB_firstFreeInode)),
               SB_firstFreeInode, inodeNum),
           SB_freeInodes, U(W(m, SB_freeInodes) + 1))

(***************************************************************************)
(* Names and paths.  A name is a string of characters other than '/';      *)
(* a path is the sequence of its tokens, each a name or "/".  Characters   *)
(* are coded in strcmp order ('.' < 'a' < 'b' < ...); 0 is NUL.            *)
(***************************************************************************)
Min(x, y) == IF x < y THEN x ELSE y

NameChars(n) ==
  CASE n = "" -> <<>>
    [] n = "." -> <<1>>
    [] n = ".." -> <<1, 1>>
    [] n = "a" -> <<2>>
    [] n = "b" -> <<3>>
    [] n = "x" -> <<4>>
    [] n = "ab" -> <<2, 3>>
    [] n = "ba" -> <<3, 2>>
    [] n = "abxa" -> <<2, 3, 4, 2>>
    [] n = "bx" -> <<3, 4>>
    [] n = "xa" -> <<4, 2>>
    [] n = "xb" -> <<4, 3>>
    [] n = "aa" -> <<2, 2>>
    [] n = "bb" -> <<3, 3>>
    [] n = "xx" -> <<4, 4>>
    [] n = "aa..a" -> SubSeq([k \in 1..MAX_FILENAME_LENGTH |-> 2], 1, MAX_FILENAME_LENGTH - 1)
    [] n = "aa..ab" -> SubSeq([k \in 1..MAX_FILENAME_LENGTH |-> 2], 1, MAX_FILENAME_LENGTH - 1)
                       \o <<3>>

NameLength(n) == Len(NameChars(n))

\* the word of a char array that holds cs[k], from that char on; the chars
\* past the end of cs are NUL
RECURSIVE PackChars(_, _)
PackChars(cs, k) ==
  IF k > Len(cs) THEN 0
  ELSE cs[k] * CharMod ^ ((k - 1) % WordBytes)
       + (IF k % WordBytes = 0 THEN 0 ELSE PackChars(cs, k + 1))

NameFieldOf(cs) ==
  SubSeq([w \in 1..NameWords |-> PackChars(cs, (w - 1) * WordBytes + 1)], 1, NameWords)

\* strncpy(newEntry.name, name, MAX_FILENAME_LENGTH - 1); name[last] = '\0'
NameField(n) ==
  NameFieldOf(SubSeq(NameChars(n), 1, Min(NameLength(n), MAX_FILENAME_LENGTH - 1)))

\* the k-th char (from 0) of a copied DirectoryEntry, read as strcmp reads
\* it: through the name and on into inodeNumber when the name has no NUL
EntChar(e, k) ==
  IF k < MAX_FILENAME_LENGTH
  THEN (e.name[(k \div WordBytes) + 1] \div CharMod ^ (k % WordBytes)) % CharMod
  ELSE IF k < MAX_FILENAME_LENGTH + WordBytes
       THEN (e.inodeNumber \div CharMod ^ (k - MAX_FILENAME_LENGTH)) % CharMod
       ELSE 0

\* strcmp(entry.name, name.c_str()) == 0
NameEq(e, n) ==
  /\ \A k \in 1..NameLength(n) : EntChar(e, k - 1) = NameChars(n)[k]
  /\ EntChar(e, NameLength(n)) = 0

(***************************************************************************)
(* Directory store.  `wild` is what a read outside `memory` returns when   *)
(* it does not fault; `oob` tells that such an access happened.  A write   *)
(* outside `memory` is lost.  An `int` that holds an inode number or -1 is *)
(* kept as its unsigned bit pattern: NotFound is (unsigned)-1.             *)
(***************************************************************************)
NotFound == UINT_MOD - 1

OrOob(r, b) == [r EXCEPT !.oob = @ \/ b]

\* the k-th word counted from the start of block b
WordInMem(b, k) == BlockInMem(b) /\ BlockBase(b) + k < MemWords

BlkWord(m, b, k, wild) == IF WordInMem(b, k) THEN W(m, BlockBase(b) + k) ELSE wild

PutWord(m, b, k, v) ==
  IF WordInMem(b, k) THEN Put(m, BlockBase(b) + k, v) ELSE m

EntryAt(m, b, j, wild) ==
  [name |-> SubSeq([w \in 1..NameWords |-> BlkWord(m, b, j * DirEntWords + w - 1, wild)],
                   1, NameWords),
   inodeNumber |-> BlkWord(m, b, j * DirEntWords + NameWords, wild)]

\* if (entry->inodeNumber != 0) entries.push_back(*entry)
Live(e) == IF e.inodeNumber # 0 THEN <<e>> ELSE <<>>

RECURSIVE ScanBlock(_, _, _, _)
ScanBlock(m, b, j, wild) ==
  IF j >= EntriesPerBlock THEN <<>>
  ELSE Live(EntryAt(m, b, j, wild)) \o ScanBlock(m, b, j + 1, wild)

\* the entries read so far, with those of block b when b is not 0
ScanInto(r, m, b, wild) ==
  IF b = 0 THEN r
  ELSE [entries |-> r.entries \o ScanBlock(m, b, 0, wild),
        oob |-> r.oob \/ ~BlockInMem(b)]

RECURSIVE ScanDirect(_, _, _, _, _)
ScanDirect(r, m, ino, i, wild) ==
  IF i >= DIRECT_BLOCKS THEN r
  ELSE ScanDirect(ScanInto(r, m, Fld(ino, OFF_addr + i), wild), m, ino, i + 1, wild)

RECURSIVE ScanIndirect(_, _, _, _, _)
ScanIndirect(r, m, ib, i, wild) ==
  IF i >= SlotsPerBlock THEN r
  ELSE ScanIndirect(ScanInto(r, m, BlkWord(m, ib, i, wild), wild), m, ib, i + 1, wild)

ScanInode(m, ino, wild) ==
  IF Fld(ino, OFF_type) # 1 THEN [entries |-> <<>>, oob |-> FALSE]
  ELSE IF Fld(ino, OFF_ind) = 0
  THEN ScanDirect([entries |-> <<>>, oob |-> FALSE], m, ino, 0, wild)
  ELSE ScanIndirect(OrOob(ScanDirect([entries |-> <<>>, oob |-> FALSE], m, ino, 0, wild),
                          ~BlockInMem(Fld(ino, OFF_ind))),
                    m, Fld(ino, OFF_ind), 0, wild)

readDirectoryEntries(m, inodeNum, wild) == ScanInode(m, readInode(m, inodeNum), wild)

RECURSIVE FirstNamed(_, _, _)
FirstNamed(entries, n, k) ==
  IF k > Len(entries) THEN NotFound
  ELSE IF NameEq(entries[k], n) THEN entries[k].inodeNumber
  ELSE FirstNamed(entries, n, k + 1)

FoundIn(r, n) == [ret |-> FirstNamed(r.entries, n, 1), oob |-> r.oob]

findDirectoryEntry(m, dirInodeNum, n, wild) ==
  FoundIn(readDirectoryEntries(m, dirInodeNum, wild), n)

\* the first slot of block b, from j on, whose inodeNumber is 0; -1 if none
RECURSIVE FreeSlot(_, _, _, _)
FreeSlot(m, b, j, wild) ==
  IF j >= EntriesPerBlock THEN -1
  ELSE IF EntryAt(m, b, j, wild).inodeNumber = 0 THEN j
  ELSE FreeSlot(m, b, j + 1, wild)

\* dirInode.size += delta; dirInode.modificationTime = time(nullptr)
Resized(dirInode, delta) ==
  SetTime(SetFld(dirInode, OFF_size, U(Fld(dirInode, OFF_size) + delta)), OFF_mtime)

\* the words ws stored from the k-th word of block b on
RECURSIVE PutBlkWords(_, _, _, _, _)
PutBlkWords(m, b, k, ws, w) ==
  IF w > Len(ws) THEN m
  ELSE PutBlkWords(PutWord(m, b, k + w - 1, ws[w]), b, k, ws, w + 1)

\* *entry = newEntry; then the directory's inode is updated and written
CommitEntry(m, dirInodeNum, dirInode, b, j, n, inodeNum) ==
  writeInode(PutWord(PutBlkWords(m, b, j * DirEntWords, NameField(n), 1),
                     b, j * DirEntWords + NameWords, inodeNum),
             dirInodeNum, Resized(dirInode, SizeofDirectoryEntry))

(***************************************************************************)
(* addDirectoryEntry.  `s` is the state of the call: the image, the local  *)
(* copy dirInode, whether it has returned (done) and what (ret).           *)
(***************************************************************************)
\* the loop over the slots of block b: the entry goes into the first free one
PlaceAt(s, dirInodeNum, b, j, n, inodeNum) ==
  IF j < 0 THEN OrOob(s, ~BlockInMem(b))
  ELSE [m |-> CommitEntry(s.m, dirInodeNum, s.dirInode, b, j, n, inodeNum),
        dirInode |-> s.dirInode, done |-> TRUE, ret |-> TRUE,
        oob |-> s.oob \/ ~BlockInMem(b)]

PlaceIn(s, dirInodeNum, b, n, inodeNum, wild) ==
  IF s.done THEN s
  ELSE PlaceAt(s, dirInodeNum, b, FreeSlot(s.m, b, 0, wild), n, inodeNum)

\* a = allocateBlock(); if (a == 0) return false;
\* dirInode.<field> = a; writeInode(dirInodeNum, dirInode)
GrowInode(s, a, dirInodeNum, off) ==
  IF a.ret = 0 THEN [s EXCEPT !.done = TRUE]
  ELSE [s EXCEPT !.m = writeInode(a.m, dirInodeNum, SetFld(s.dirInode, off, a.ret)),
                 !.dirInode = SetFld(s.dirInode, off, a.ret)]

\* one round of the loop over the direct blocks: a missing block is
\* allocated first, then comes the loop over the slots of blockAddresses[i]
DirectStep(s, dirInodeNum, i) ==
  IF Fld(s.dirInode, OFF_addr + i) = 0
  THEN GrowInode(s, allocateBlock(s.m), dirInodeNum, OFF_addr + i)
  ELSE s

DirectPlace(s, dirInodeNum, n, inodeNum, i, wild) ==
  PlaceIn(s, dirInodeNum, Fld(s.dirInode, OFF_addr + i), n, inodeNum, wild)

\* a directory that keeps its entries in blockAddresses[0] only
AddInFirstBlock(s, dirInodeNum, n, inodeNum, i, wild) ==
  IF s.done THEN s
  ELSE DirectPlace(DirectStep(s, dirInodeNum, 0), dirInodeNum, n, inodeNum, 0, wild)

RECURSIVE AddDirect(_, _, _, _, _, _)
AddDirect(s, dirInodeNum, n, inodeNum, i, wild) ==
  IF s.done \/ i >= DIRECT_BLOCKS THEN s
  ELSE AddDirect(DirectPlace(DirectStep(s, dirInodeNum, i), dirInodeNum, n, inodeNum, i, wild),
                 dirInodeNum, n, inodeNum, i + 1, wild)

\* a = allocateBlock(); if (a == 0) return false; indirectBlockData[i] = a
GrowIndirect(s, a, ib, i) ==
  IF a.ret = 0 THEN [s EXCEPT !.done = TRUE]
  ELSE [s EXCEPT !.m = PutWord(a.m, ib, i, a.ret)]

\* one round of the loop over the slots of the indirect block
IndirectStep(s, ib, i, wild) ==
  IF BlkWord(s.m, ib, i, wild) = 0
  THEN GrowIndirect(OrOob(s, ~BlockInMem(ib)), allocateBlock(s.m), ib, i)
  ELSE OrOob(s, ~BlockInMem(ib))

\* the child block is read from indirectBlockData[i] again after the store
IndirectPlace(s, dirInodeNum, ib, n, inodeNum, i, wild) ==
  PlaceIn(s, dirInodeNum, BlkWord(s.m, ib, i, wild), n, inodeNum, wild)

RECURSIVE AddIndirect(_, _, _, _, _, _, _)
AddIndirect(s, dirInodeNum, ib, n, inodeNum, i, wild) ==
  IF s.done \/ i >= SlotsPerBlock THEN s
  ELSE AddIndirect(IndirectPlace(IndirectStep(s, ib, i, wild),
                                 dirInodeNum, ib, n, inodeNum, i, wild),
                   dirInodeNum, ib, n, inodeNum, i + 1, wild)

AddBeyond(s, dirInodeNum, n, inodeNum, wild) ==
  IF s.done THEN s
  ELSE AddIndirect(s, dirInodeNum, Fld(s.dirInode, OFF_ind), n, inodeNum, 0, wild)

\* if (dirInode.indirectBlock == 0) the indirect block is allocated first
AddTail(s, dirInodeNum, n, inodeNum, wild) ==
  IF s.done THEN s
  ELSE AddBeyond(IF Fld(s.dirInode, OFF_ind) = 0
                 THEN GrowInode(s, allocateBlock(s.m), dirInodeNum, OFF_ind)
                 ELSE s,
                 dirInodeNum, n, inodeNum, wild)

AddEntry(m, dirInode, dirInodeNum, n, inodeNum, wild) ==
  IF Fld(dirInode, OFF_type) # 1
  THEN [m |-> m, ret |-> FALSE, oob |-> FALSE]
  ELSE AddTail(AddDirect([m |-> m, dirInode |-> dirInode, done |-> FALSE,
                          ret |-> FALSE, oob |-> FALSE],
                         dirInodeNum, n, inodeNum, 0, wild),
               dirInodeNum, n, inodeNum, wild)

addDirectoryEntry(m, dirInodeNum, n, inodeNum, wild) ==
  IF NameLength(n) >= MAX_FILENAME_LENGTH
  THEN [m |-> m, ret |-> FALSE, oob |-> FALSE]
  ELSE AddEntry(m, readInode(m, dirInodeNum), dirInodeNum, n, inodeNum, wild)

(***************************************************************************)
(* removeDirectoryEntry.  `s` is the image, whether the entry was found    *)
(* (ret) and the out-of-memory flag.                                       *)
(***************************************************************************)
\* the first live entry of block b, from slot j on, whose name is n; -1 if none
RECURSIVE SlotNamed(_, _, _, _, _)
SlotNamed(m, b, j, n, wild) ==
  IF j >= EntriesPerBlock THEN -1
  ELSE IF EntryAt(m, b, j, wild).inodeNumber # 0 /\ NameEq(EntryAt(m, b, j, wild), n) THEN j
  ELSE SlotNamed(m, b, j + 1, n, wild)

\* entry->inodeNumber = 0; then the directory's inode is updated and written
TombstoneEntry(m, dirInodeNum, dirInode, b, j) ==
  writeInode(PutWord(m, b, j * DirEntWords + NameWords, 0),
             dirInodeNum, Resized(dirInode, 0 - SizeofDirectoryEntry))

RemoveAt(s, dirInodeNum, dirInode, b, j) ==
  IF j < 0 THEN OrOob(s, ~BlockInMem(b))
  ELSE [m |-> TombstoneEntry(s.m, dirInodeNum, dirInode, b, j),
        ret |-> TRUE, oob |-> s.oob \/ ~BlockInMem(b)]

RemoveIn(s, dirInodeNum, dirInode, b, n, wild) ==
  IF b = 0 THEN s
  ELSE RemoveAt(s, dirInodeNum, dirInode, b, SlotNamed(s.m, b, 0, n, wild))

RECURSIVE RemoveDirect(_, _, _, _, _, _)
RemoveDirect(s, dirInodeNum, dirInode, n, i, wild) ==
  IF s.ret \/ i >= DIRECT_BLOCKS THEN s
  ELSE RemoveDirect(RemoveIn(s, dirInodeNum, dirInode, Fld(dirInode, OFF_addr + i), n, wild),
                    dirInodeNum, dirInode, n, i + 1, wild)

RECURSIVE RemoveIndirect(_, _, _, _, _, _, _)
RemoveIndirect(s, dirInodeNum, dirInode, ib, n, i, wild) ==
  IF s.ret \/ i >= SlotsPerBlock THEN s
  ELSE RemoveIndirect(RemoveIn(OrOob(s, ~BlockInMem(ib)), dirInodeNum, dirInode,
                               BlkWord(s.m, ib, i, wild), n, wild),
                      dirInodeNum, dirInode, ib, n, i + 1, wild)

RemoveTail(s, dirInodeNum, dirInode, n, wild) ==
  IF s.ret \/ Fld(dirInode, OFF_ind) = 0 THEN s
  ELSE RemoveIndirect(s, dirInodeNum, dirInode, Fld(dirInode, OFF_ind), n, 0, wild)

RemoveEntry(m, dirInode, dirInodeNum, n, wild) ==
  IF Fld(dirInode, OFF_type) # 1
  THEN [m |-> m, ret |-> FALSE, oob |-> FALSE]
  ELSE RemoveTail(RemoveDirect([m |-> m, ret |-> FALSE, oob |-> FALSE],
                               dirInodeNum, dirInode, n, 0, wild),
                  dirInodeNum, dirInode, n, wild)

removeDirectoryEntry(m, dirInodeNum, n, wild) ==
  RemoveEntry(m, readInode(m, dirInodeNum), dirInodeNum, n, wild)

\* initializeDirectory: the two results of addDirectoryEntry are ignored
AddDotDot(a, dirInodeNum, parentInodeNum, wild) ==
  OrOob(addDirectoryEntry(a.m, dirInodeNum, "..", parentInodeNum, wild), a.oob)

initializeDirectory(m, dirInodeNum, parentInodeNum, wild) ==
  AddDotDot(addDirectoryEntry(m, dirInodeNum, ".", dirInodeNum, wild),
            dirInodeNum, parentInodeNum, wild)

(***************************************************************************)
(* Path resolver.                                                          *)
(***************************************************************************)
IsName(t) == t # "/"

parsePath(path) == SelectSeq(path, IsName)

\* one component: "." stays, ".." at the root stays, ".." elsewhere is the
\* first live entry named "..", any other name is findDirectoryEntry
WalkStep(r, m, component, wild) ==
  IF component = "." \/ (component = ".." /\ r.ret = 0) THEN r
  ELSE OrOob(findDirectoryEntry(m, r.ret, component, wild), r.oob)

RECURSIVE WalkComponents(_, _, _, _, _)
WalkComponents(r, m, components, k, wild) ==
  IF r.ret = NotFound \/ k > Len(components) THEN r
  ELSE WalkComponents(WalkStep(r, m, components[k], wild), m, components, k + 1, wild)

getInodeFromPath(m, cur, path, wild) ==
  IF path = <<>> THEN [ret |-> cur, oob |-> FALSE]
  ELSE WalkComponents([ret |-> IF path[1] = "/" THEN 0 ELSE cur, oob |-> FALSE],
                      m, parsePath(path), 1, wild)

\* path.find_last_of('/') as a token index, 0 when there is none
RECURSIVE LastSlash(_, _)
LastSlash(path, k) ==
  IF k = 0 THEN 0 ELSE IF path[k] = "/" THEN k ELSE LastSlash(path, k - 1)

Dirname(path, lastSlash) ==
  IF lastSlash = 0 THEN <<".">>
  ELSE IF lastSlash = 1 THEN <<"/">>
  ELSE SubSeq(path, 1, lastSlash - 1)

Basename(path, lastSlash) ==
  IF lastSlash < Len(path) THEN path[lastSlash + 1] ELSE ""

ParentAndName(p, basename) == [parent |-> p.ret, name |-> basename, oob |-> p.oob]

getParentInodeAndFilename(m, cur, path, wild) ==
  ParentAndName(getInodeFromPath(m, cur, Dirname(path, LastSlash(path, Len(path))), wild),
                Basename(path, LastSlash(path, Len(path))))

(***************************************************************************)
(* initializeFileSystem.  `pad` is the content of the padding of the       *)
(* uninitialised local rootInode, which writeInode copies out with it.     *)
(***************************************************************************)
Indeterminate == {0, Now}

\* for (i = FIRST_DATA_BLOCK; i < TOTAL_BLOCKS - 1; i++) *nextFree(i) = i + 1;
\* then the link of the last block = 0
RECURSIVE LinkBlocks(_, _)
LinkBlocks(m, i) ==
  IF i >= TOTAL_BLOCKS - 1 THEN Put(m, BlockBase(TOTAL_BLOCKS - 1), 0)
  ELSE LinkBlocks(Put(m, BlockBase(i), i + 1), i + 1)

\* for (i = 1; i < MAX_INODES - 1; i++) inode(i)->indirectBlock = i + 1;
\* then the link of the last inode = 0
RECURSIVE LinkInodes(_, _)
LinkInodes(m, i) ==
  IF i >= MAX_INODES - 1 THEN Put(m, InodeBase(MAX_INODES - 1) + OFF_ind, 0)
  ELSE LinkInodes(Put(m, InodeBase(i) + OFF_ind, i + 1), i + 1)

SuperBlockImage ==
  PutWords(Zeros(MemWords), SB_magic,
           <<MAGIC, BLOCK_SIZE, TOTAL_BLOCKS, TOTAL_BLOCKS - FIRST_DATA_BLOCK,
             MAX_INODES, MAX_INODES - 1, FIRST_DATA_BLOCK, 1>>)

\* type = 1, size = 0, the two times, blockAddresses[0] = rootBlock, the
\* other addresses and indirectBlock = 0, then the padding
RootInode(rootBlock, pad) ==
  <<1, 0>> \o TimeT(Now) \o TimeT(Now) \o <<rootBlock>> \o Zeros(DIRECT_BLOCKS)
  \o SubSeq([k \in 1..timeWords |-> pad], 1, SizeofInodeWords - OFF_ind - 1)

MakeRoot(a, pad) ==
  initializeDirectory(writeInode(a.m, 0, RootInode(a.ret, pad)), 0, 0, 0).m

InitialImage(pad) ==
  MakeRoot(allocateBlock(LinkInodes(LinkBlocks(SuperBlockImage, FIRST_DATA_BLOCK), 1)), pad)

(***************************************************************************)
(* saveFileSystem and loadFileSystem.  The file is the sequence of the     *)
(* words written to it; <<>> stands for no file.                           *)
(***************************************************************************)
\* a save that stops where the data blocks begin
SaveTables(m) == Words(m, 0, FIRST_DATA_BLOCK * BlockWords)

\* file.write(memory, MEMORY_SIZE)
saveFileSystem(m) == Words(m, 0, MemWords)

\* file.read(memory, MEMORY_SIZE), over the image initializeFileSystem made
loadFileSystem(m, file) ==
  IF file = <<>> THEN m
  ELSE PutWords(m, 0, SubSeq(file, 1, Min(Len(file), MemWords)))

(***************************************************************************)
(* Commands.  Each yields the image after it, the message it printed and   *)
(* whether it accessed memory outside the image.                           *)
(***************************************************************************)
Result(m, msg, oob) == [m |-> m, msg |-> msg, oob |-> oob]

\* for (i < n) deallocateBlock(inode.blockAddresses[i]); block 0 is refused
RECURSIVE FreeDirect(_, _, _, _)
FreeDirect(m, ino, i, n) ==
  IF i >= n THEN m
  ELSE FreeDirect(deallocateBlock(m, Fld(ino, OFF_addr + i)), ino, i + 1, n)

\* for (i < n) deallocateBlock(indirectBlockData[i])
RECURSIVE FreeSlots(_, _, _, _, _)
FreeSlots(m, ib, i, n, wild) ==
  IF i >= n THEN m
  ELSE FreeSlots(deallocateBlock(m, BlkWord(m, ib, i, wild)), ib, i + 1, n, wild)

FreeIndirect(m, ib, n, wild) ==
  IF ib = 0 THEN [m |-> m, oob |-> FALSE]
  ELSE [m |-> deallocateBlock(FreeSlots(m, ib, 0, n, wild), ib),
        oob |-> ~WordInMem(ib, n - 1)]

\* the block-freeing tail of cmdRm and cmdRmdir
FreeInodeBlocks(m, ino, wild) ==
  FreeIndirect(FreeDirect(m, ino, 0, DIRECT_BLOCKS), Fld(ino, OFF_ind), SlotsPerBlock, wild)

(***************************************************************************)
(* The same tail of cmdRm and cmdRmdir, call by call, from the removal of  *)
(* the directory entry on: a log of what each call was given and of the    *)
(* image before and after it.                                              *)
(***************************************************************************)
Image(log) == log[Len(log)].after

\* deallocateBlock(b)
Freed(log, step, b) ==
  Append(log, [step |-> step, arg |-> b, before |-> Image(log),
               after |-> deallocateBlock(Image(log), b)])

\* for (i < DIRECT_BLOCKS) if (inode.blockAddresses[i] != 0) deallocateBlock(...)
RECURSIVE LogDirect(_, _, _)
LogDirect(log, inode, i) ==
  IF i >= DIRECT_BLOCKS THEN log
  ELSE LogDirect(IF Fld(inode, OFF_addr + i) = 0 THEN log
                 ELSE Freed(log, "direct", Fld(inode, OFF_addr + i)),
                 inode, i + 1)

\* for (i < SlotsPerBlock) if (indirectBlockData[i] != 0) deallocateBlock(...)
RECURSIVE LogChildren(_, _, _, _)
LogChildren(log, ib, i, wild) ==
  IF i >= SlotsPerBlock THEN log
  ELSE LogChildren(IF BlkWord(Image(log), ib, i, wild) = 0 THEN log
                   ELSE Freed(log, "child", BlkWord(Image(log), ib, i, wild)),
                   ib, i + 1, wild)

\* if (inode.indirectBlock != 0) { the children; deallocateBlock(indirectBlock) }
LogIndirect(log, ib, wild) ==
  IF ib = 0 THEN log ELSE Freed(LogChildren(log, ib, 0, wild), "indirect", ib)

\* deallocateInode(target)
LogInode(log, target) ==
  Append(log, [step |-> "inode", arg |-> target, before |-> Image(log),
               after |-> deallocateInode(Image(log), target)])

\* removeDirectoryEntry(parentInode, name), then the blocks of the local
\* copy `inode` read before it, then the inode
RemovalOf(m, p, target, inode, wild) ==
  LogInode(LogIndirect(LogDirect(<<[step |-> "entry", arg |-> p.parent, before |-> m,
                                    after |-> removeDirectoryEntry(m, p.parent, p.name,
                                                                   wild).m]>>,
                                 inode, 0),
                       Fld(inode, OFF_ind), wild),
           target)

RemovalAt(m, p, target, wild) == RemovalOf(m, p, target, readInode(m, target), wild)

\* fileInode = findDirectoryEntry(parentInode, name)
RemovalFound(m, p, wild) ==
  RemovalAt(m, p, findDirectoryEntry(m, p.parent, p.name, wild).ret, wild)

RemovalLog(m, cur, path, wild) ==
  RemovalFound(m, getParentInodeAndFilename(m, cur, path, wild), wild)

MkdirEnd(newInode, newBlock, e, oob) ==
  IF ~e.ret
  THEN Result(deallocateInode(deallocateBlock(e.m, newBlock), newInode),
              "Error: Could not add directory entry", oob \/ e.oob)
  ELSE Result(e.m, "Created directory", oob \/ e.oob)

MkdirLink(p, newInode, newBlock, d, oob, wild) ==
  MkdirEnd(newInode, newBlock,
           addDirectoryEntry(d.m, p.parent, p.name, newInode, wild), oob \/ d.oob)

MkdirBlock(p, newInode, inode, ab, oob, wild) ==
  IF ab.ret = 0
  THEN Result(deallocateInode(ab.m, newInode), "Error: Not enough free blocks", oob)
  ELSE MkdirLink(p, newInode, ab.ret,
                 initializeDirectory(
                   writeInode(ab.m, newInode, SetFld(inode, OFF_addr, ab.ret)),
                   newInode, p.parent, wild),
                 oob, wild)

MkdirInode(p, ai, oob, wild) ==
  IF ai.ret = MAX_INODES THEN Result(ai.m, "Error: No free inodes", oob \/ ai.oob)
  ELSE MkdirBlock(p, ai.ret,
                  SetFld(SetFld(readInode(ai.m, ai.ret), OFF_type, 1), OFF_size, 0),
                  allocateBlock(ai.m), oob \/ ai.oob, wild)

MkdirNew(m, p, f, wild) ==
  IF f.ret # NotFound
  THEN Result(m, "Error: Directory already exists", p.oob \/ f.oob)
  ELSE IF W(m, SB_freeBlocks) < 1
  THEN Result(m, "Error: Not enough free blocks", p.oob \/ f.oob)
  ELSE MkdirInode(p, allocateInode(m, wild), p.oob \/ f.oob, wild)

MkdirAt(m, p, wild) ==
  IF p.parent = NotFound THEN Result(m, "Error: Invalid path", p.oob)
  ELSE MkdirNew(m, p, findDirectoryEntry(m, p.parent, p.name, wild), wild)

cmdMkdir(m, cur, dirname, wild) ==
  MkdirAt(m, getParentInodeAndFilename(m, cur, dirname, wild), wild)

RmdirFree(dirInode, fb, oob) ==
  Result(deallocateInode(fb.m, dirInode), "Removed directory", oob \/ fb.oob)

RmdirUnlink(dirInode, inode, r, oob, wild) ==
  IF ~r.ret THEN Result(r.m, "Error: Could not remove directory entry", oob \/ r.oob)
  ELSE RmdirFree(dirInode, FreeInodeBlocks(r.m, inode, wild), oob \/ r.oob)

RmdirEmpty(m, p, dirInode, inode, es, oob, wild) ==
  IF Len(es.entries) > 2 THEN Result(m, "Error: Directory not empty", oob \/ es.oob)
  ELSE RmdirUnlink(dirInode, inode, removeDirectoryEntry(m, p.parent, p.name, wild),
                   oob \/ es.oob, wild)

RmdirInode(m, p, dirInode, inode, oob, wild) ==
  IF Fld(inode, OFF_type) # 1 THEN Result(m, "Error: Not a directory", oob)
  ELSE RmdirEmpty(m, p, dirInode, inode, readDirectoryEntries(m, dirInode, wild), oob, wild)

RmdirFound(m, p, f, wild) ==
  IF f.ret = NotFound THEN Result(m, "Error: Directory not found", p.oob \/ f.oob)
  ELSE RmdirInode(m, p, f.ret, readInode(m, f.ret), p.oob \/ f.oob, wild)

RmdirAt(m, p, wild) ==
  IF p.parent = NotFound THEN Result(m, "Error: Invalid path", p.oob)
  ELSE RmdirFound(m, p, findDirectoryEntry(m, p.parent, p.name, wild), wild)

cmdRmdir(m, cur, dirname, wild) ==
  RmdirAt(m, getParentInodeAndFilename(m, cur, dirname, wild), wild)

RmFree(fileInode, fb, oob) ==
  Result(deallocateInode(fb.m, fileInode), "Removed file", oob \/ fb.oob)

RmUnlink(fileInode, inode, r, oob, wild) ==
  IF ~r.ret THEN Result(r.m, "Error: Could not remove directory entry", oob \/ r.oob)
  ELSE RmFree(fileInode, FreeInodeBlocks(r.m, inode, wild), oob \/ r.oob)

RmInode(m, p, fileInode, inode, oob, wild) ==
  IF Fld(inode, OFF_type) # 0 THEN Result(m, "Error: Not a file", oob)
  ELSE RmUnlink(fileInode, inode, removeDirectoryEntry(m, p.parent, p.name, wild), oob, wild)

RmFound(m, p, f, wild) ==
  IF f.ret = NotFound THEN Result(m, "Error: File not found", p.oob \/ f.oob)
  ELSE RmInode(m, p, f.ret, readInode(m, f.ret), p.oob \/ f.oob, wild)

RmAt(m, p, wild) ==
  IF p.parent = NotFound THEN Result(m, "Error: Invalid path", p.oob)
  ELSE RmFound(m, p, findDirectoryEntry(m, p.parent, p.name, wild), wild)

cmdRm(m, cur, filename, wild) ==
  RmAt(m, getParentInodeAndFilename(m, cur, filename, wild), wild)

\* newBlock = allocateBlock(); if (newBlock == 0) { allocationFailed = true; break; }
\* inode.blockAddresses[i] = newBlock
AllocInto(s, a, i) ==
  IF a.ret = 0 THEN [s EXCEPT !.failed = TRUE]
  ELSE [m |-> a.m, inode |-> SetFld(s.inode, OFF_addr + i, a.ret), failed |-> FALSE]

RECURSIVE AllocDirect(_, _, _)
AllocDirect(s, i, directBlocks) ==
  IF s.failed \/ i >= directBlocks THEN s
  ELSE AllocDirect(AllocInto(s, allocateBlock(s.m), i), i + 1, directBlocks)

\* newBlock = allocateBlock(); if (newBlock == 0) <fail at i>;
\* indirectBlockData[i] = newBlock
ChildInto(s, a, ib, i) ==
  IF a.ret = 0 THEN [s EXCEPT !.failedAt = i]
  ELSE [s EXCEPT !.m = PutWord(a.m, ib, i, a.ret)]

RECURSIVE AllocChildren(_, _, _, _)
AllocChildren(s, ib, i, indirectBlocks) ==
  IF s.failedAt # -1 \/ i >= indirectBlocks THEN s
  ELSE AllocChildren(ChildInto(s, allocateBlock(s.m), ib, i), ib, i + 1, indirectBlocks)

\* the cleanup of cmdTouch and cmdCopyFile when addDirectoryEntry fails
UndoFile(m, inode, newInode, directBlocks, blocksNeeded, wild) ==
  deallocateInode(
    FreeIndirect(FreeDirect(m, inode, 0, directBlocks), Fld(inode, OFF_ind),
                 U(blocksNeeded - DIRECT_BLOCKS), wild).m,
    newInode)

TouchEnd(newInode, inode, e, blocksNeeded, oob, wild) ==
  IF ~e.ret
  THEN Result(UndoFile(e.m, inode, newInode, Min(blocksNeeded, DIRECT_BLOCKS),
                       blocksNeeded, wild),
              "Error: Could not add directory entry", oob \/ e.oob)
  ELSE Result(e.m, "Created file", oob \/ e.oob)

TouchLink(m, p, newInode, inode, blocksNeeded, oob, wild) ==
  TouchEnd(newInode, inode,
           addDirectoryEntry(writeInode(m, newInode, inode), p.parent, p.name,
                             newInode, wild),
           blocksNeeded, oob, wild)

\* the cleanup when the i-th block behind the indirect block is not to be had
UndoChildren(m, inode, newInode, failedAt, wild) ==
  deallocateInode(
    FreeDirect(deallocateBlock(FreeSlots(m, Fld(inode, OFF_ind), 0, failedAt, wild),
                               Fld(inode, OFF_ind)),
               inode, 0, DIRECT_BLOCKS),
    newInode)

TouchChildren(p, newInode, inode, c, blocksNeeded, oob, wild) ==
  IF c.failedAt # -1
  THEN Result(UndoChildren(c.m, inode, newInode, c.failedAt, wild),
              "Error: Failed to allocate indirect data block", oob)
  ELSE TouchLink(c.m, p, newInode, inode, blocksNeeded, oob, wild)

TouchIndirect(p, newInode, d, ab, blocksNeeded, oob, wild) ==
  IF ab.ret = 0
  THEN Result(deallocateInode(FreeDirect(d.m, d.inode, 0, DIRECT_BLOCKS), newInode),
              "Error: Failed to allocate indirect block", oob)
  ELSE TouchChildren(p, newInode, SetFld(d.inode, OFF_ind, ab.ret),
                     AllocChildren([m |-> ab.m, failedAt |-> -1], ab.ret, 0,
                                   blocksNeeded - DIRECT_BLOCKS),
                     blocksNeeded, oob, wild)

TouchDirect(p, newInode, d, blocksNeeded, oob, wild) ==
  IF d.failed
  THEN Result(deallocateInode(FreeDirect(d.m, d.inode, 0, Min(blocksNeeded, DIRECT_BLOCKS)),
                              newInode),
              "Error: Failed to allocate blocks for file", oob)
  ELSE IF blocksNeeded > DIRECT_BLOCKS
  THEN TouchIndirect(p, newInode, d, allocateBlock(d.m), blocksNeeded, oob, wild)
  ELSE TouchLink(d.m, p, newInode, d.inode, blocksNeeded, oob, wild)

TouchInode(p, ai, size, blocksNeeded, oob, wild) ==
  IF ai.ret = MAX_INODES THEN Result(ai.m, "Error: No free inodes", oob \/ ai.oob)
  ELSE TouchDirect(p, ai.ret,
                   AllocDirect([m |-> ai.m,
                                inode |-> SetFld(SetFld(readInode(ai.m, ai.ret), OFF_type, 0),
                                                 OFF_size, size),
                                failed |-> FALSE],
                               0, Min(blocksNeeded, DIRECT_BLOCKS)),
                   blocksNeeded, oob \/ ai.oob, wild)

TouchNew(m, p, f, size, blocksNeeded, wild) ==
  IF f.ret # NotFound THEN Result(m, "Error: File already exists", p.oob \/ f.oob)
  ELSE IF blocksNeeded > DIRECT_BLOCKS + SlotsPerBlock
  THEN Result(m, "Error: File size too large", p.oob \/ f.oob)
  ELSE IF W(m, SB_freeBlocks)
            < U(blocksNeeded + (IF blocksNeeded > DIRECT_BLOCKS THEN 1 ELSE 0))
  THEN Result(m, "Error: Not enough free blocks", p.oob \/ f.oob)
  ELSE TouchInode(p, allocateInode(m, wild), size, blocksNeeded, p.oob \/ f.oob, wild)

TouchAt(m, p, size, wild) ==
  IF p.parent = NotFound THEN Result(m, "Error: Invalid path", p.oob)
  ELSE TouchNew(m, p, findDirectoryEntry(m, p.parent, p.name, wild), size,
                U(size + BLOCK_SIZE - 1) \div BLOCK_SIZE, wild)

cmdTouch(m, cur, filename, size, wild) ==
  TouchAt(m, getParentInodeAndFilename(m, cur, filename, wild), size, wild)

\* memcpy(memory + dst * BLOCK_SIZE, memory + src * BLOCK_SIZE, BLOCK_SIZE)
CopyBlock(m, dst, src, wild) ==
  IF ~BlockInMem(dst) THEN m
  ELSE PutWords(m, BlockBase(dst),
                IF BlockInMem(src) THEN Words(m, BlockBase(src), BlockWords)
                ELSE SubSeq([k \in 1..BlockWords |-> wild], 1, BlockWords))

CopyInto(s, a, sb, i, wild) ==
  IF a.ret = 0 THEN [s EXCEPT !.failed = TRUE]
  ELSE [m |-> IF sb # 0 THEN CopyBlock(a.m, a.ret, sb, wild) ELSE a.m,
        inode |-> SetFld(s.inode, OFF_addr + i, a.ret),
        failed |-> FALSE,
        oob |-> s.oob \/ (sb # 0 /\ ~BlockInMem(sb))]

RECURSIVE CopyDirect(_, _, _, _, _)
CopyDirect(s, srcInode, i, directBlocks, wild) ==
  IF s.failed \/ i >= directBlocks THEN s
  ELSE CopyDirect(CopyInto(s, allocateBlock(s.m), Fld(srcInode, OFF_addr + i), i, wild),
                  srcInode, i + 1, directBlocks, wild)

\* destIndirectBlockData[i] = newBlock; memcpy from block srcIndirectBlockData[i]
CopyChildData(s, m1, newBlock, sib, dib, i, wild) ==
  [m |-> CopyBlock(m1, newBlock, BlkWord(m1, sib, i, wild), wild),
   failedAt |-> -1,
   oob |-> s.oob \/ ~WordInMem(dib, i) \/ ~BlockInMem(BlkWord(m1, sib, i, wild))]

CopyChildInto(s, a, sib, dib, i, wild) ==
  IF a.ret = 0 THEN [s EXCEPT !.failedAt = i]
  ELSE CopyChildData(s, PutWord(a.m, dib, i, a.ret), a.ret, sib, dib, i, wild)

CopyChild(s, sib, dib, i, wild) ==
  IF BlkWord(s.m, sib, i, wild) = 0 THEN s
  ELSE CopyChildInto(s, allocateBlock(s.m), sib, dib, i, wild)

RECURSIVE CopyChildren(_, _, _, _, _, _)
CopyChildren(s, sib, dib, i, indirectBlocks, wild) ==
  IF s.failedAt # -1 \/ i >= indirectBlocks THEN s
  ELSE CopyChildren(CopyChild(OrOob(s, ~WordInMem(sib, i)), sib, dib, i, wild),
                    sib, dib, i + 1, indirectBlocks, wild)

CopyEnd(destInodeNum, destInode, e, blocksNeeded, oob, wild) ==
  IF ~e.ret
  THEN Result(UndoFile(e.m, destInode, destInodeNum, Min(blocksNeeded, DIRECT_BLOCKS),
                       blocksNeeded, wild),
              "Error: Could not add directory entry", oob \/ e.oob)
  ELSE Result(e.m, "Copied file", oob \/ e.oob)

CopyLink(m, p, destInodeNum, destInode, blocksNeeded, oob, wild) ==
  CopyEnd(destInodeNum, destInode,
          addDirectoryEntry(writeInode(m, destInodeNum, destInode), p.parent, p.name,
                            destInodeNum, wild),
          blocksNeeded, oob, wild)

CopyChildrenDone(p, destInodeNum, destInode, c, blocksNeeded, oob, wild) ==
  IF c.failedAt # -1
  THEN Result(UndoChildren(c.m, destInode, destInodeNum, c.failedAt, wild),
              "Error: Failed to allocate indirect data block for file copy",
              oob \/ c.oob)
  ELSE CopyLink(c.m, p, destInodeNum, destInode, blocksNeeded, oob \/ c.oob, wild)

CopyIndirect(srcInode, p, destInodeNum, d, ab, blocksNeeded, oob, wild) ==
  IF ab.ret = 0
  THEN Result(deallocateInode(FreeDirect(d.m, d.inode, 0, DIRECT_BLOCKS), destInodeNum),
              "Error: Failed to allocate indirect block for file copy", oob)
  ELSE CopyChildrenDone(p, destInodeNum, SetFld(d.inode, OFF_ind, ab.ret),
                        IF Fld(srcInode, OFF_ind) # 0
                        THEN CopyChildren([m |-> ab.m, failedAt |-> -1, oob |-> FALSE],
                                          Fld(srcInode, OFF_ind), ab.ret, 0,
                                          blocksNeeded - DIRECT_BLOCKS, wild)
                        ELSE [m |-> ab.m, failedAt |-> -1, oob |-> FALSE],
                        blocksNeeded, oob, wild)

CopyDirectDone(srcInode, p, destInodeNum, d, blocksNeeded, oob, wild) ==
  IF d.failed
  THEN Result(deallocateInode(FreeDirect(d.m, d.inode, 0, Min(blocksNeeded, DIRECT_BLOCKS)),
                              destInodeNum),
              "Error: Failed to allocate blocks for file copy", oob \/ d.oob)
  ELSE IF blocksNeeded > DIRECT_BLOCKS
  THEN CopyIndirect(srcInode, p, destInodeNum, d, allocateBlock(d.m), blocksNeeded,
                    oob \/ d.oob, wild)
  ELSE CopyLink(d.m, p, destInodeNum, d.inode, blocksNeeded, oob \/ d.oob, wild)

CopyInode(srcInode, p, ai, blocksNeeded, oob, wild) ==
  IF ai.ret = MAX_INODES THEN Result(ai.m, "Error: No free inodes", oob \/ ai.oob)
  ELSE CopyDirectDone(srcInode, p, ai.ret,
                      CopyDirect([m |-> ai.m,
                                  inode |-> SetFld(SetFld(readInode(ai.m, ai.ret), OFF_type, 0),
                                                   OFF_size, Fld(srcInode, OFF_size)),
                                  failed |-> FALSE, oob |-> FALSE],
                                 srcInode, 0, Min(blocksNeeded, DIRECT_BLOCKS), wild),
                      blocksNeeded, oob \/ ai.oob, wild)

CopyNew(m, srcInode, p, f, blocksNeeded, oob, wild) ==
  IF f.ret # NotFound
  THEN Result(m, "Error: Destination file already exists", oob \/ f.oob)
  ELSE IF W(m, SB_freeBlocks)
            < U(blocksNeeded + (IF blocksNeeded > DIRECT_BLOCKS THEN 1 ELSE 0))
  THEN Result(m, "Error: Not enough free blocks", oob \/ f.oob)
  ELSE CopyInode(srcInode, p, allocateInode(m, wild), blocksNeeded, oob \/ f.oob, wild)

CopyTo(m, srcInode, p, oob, wild) ==
  IF p.parent = NotFound
  THEN Result(m, "Error: Invalid destination path", oob \/ p.oob)
  ELSE CopyNew(m, srcInode, p, findDirectoryEntry(m, p.parent, p.name, wild),
               U(Fld(srcInode, OFF_size) + BLOCK_SIZE - 1) \div BLOCK_SIZE,
               oob \/ p.oob, wild)

CopySource(m, cur, srcInode, dest, oob, wild) ==
  IF Fld(srcInode, OFF_type) # 0 THEN Result(m, "Error: Source is not a file", oob)
  ELSE CopyTo(m, srcInode, getParentInodeAndFilename(m, cur, dest, wild), oob, wild)

CopyFrom(m, cur, s, dest, wild) ==
  IF s.ret = NotFound THEN Result(m, "Error: Source file not found", s.oob)
  ELSE CopySource(m, cur, readInode(m, s.ret), dest, s.oob, wild)

cmdCopyFile(m, cur, src, dest, wild) ==
  CopyFrom(m, cur, getInodeFromPath(m, cur, src, wild), dest, wild)

\* the components of currentPath after a successful cd, "." and ".." resolved
RECURSIVE Normalize(_, _, _)
Normalize(components, k, acc) ==
  IF k > Len(components) THEN acc
  ELSE IF components[k] = "." THEN Normalize(components, k + 1, acc)
  ELSE IF components[k] = ".."
       THEN Normalize(components, k + 1,
                      IF acc = <<>> THEN acc ELSE SubSeq(acc, 1, Len(acc) - 1))
  ELSE Normalize(components, k + 1, Append(acc, components[k]))

\* "/" + component + "/" + ... with the trailing slash removed
RECURSIVE JoinComponents(_, _)
JoinComponents(components, k) ==
  IF k > Len(components) THEN <<>>
  ELSE IF k = Len(components) THEN <<components[k]>>
  ELSE <<components[k], "/">> \o JoinComponents(components, k + 1)

\* currentPath = path, or currentPath += path, or currentPath += "/" + path
Joined(curPath, path) ==
  IF path[1] = "/" THEN path
  ELSE IF curPath = <<"/">> THEN curPath \o path
  ELSE curPath \o <<"/">> \o path

CdTo(m, cur, curPath, path, r) ==
  IF r.ret = NotFound
  THEN [m |-> m, msg |-> "Error: Invalid path", oob |-> r.oob,
        cur |-> cur, path |-> curPath, listing |-> <<>>]
  ELSE IF Fld(readInode(m, r.ret), OFF_type) # 1
  THEN [m |-> m, msg |-> "Error: Not a directory", oob |-> r.oob,
        cur |-> cur, path |-> curPath, listing |-> <<>>]
  ELSE [m |-> m, msg |-> "", oob |-> r.oob, cur |-> r.ret,
        path |-> <<"/">> \o JoinComponents(Normalize(parsePath(Joined(curPath, path)),
                                                      1, <<>>), 1),
        listing |-> <<>>]

cmdCd(m, cur, curPath, path, wild) ==
  IF path = <<>>
  THEN [m |-> m, msg |-> "", oob |-> FALSE, cur |-> cur, path |-> curPath,
        listing |-> <<>>]
  ELSE CdTo(m, cur, curPath, path, getInodeFromPath(m, cur, path, wild))

\* the C string strcmp sees at entry.name
RECURSIVE CStr(_, _)
CStr(e, k) ==
  IF EntChar(e, k) = 0 THEN <<>> ELSE <<EntChar(e, k)>> \o CStr(e, k + 1)

RECURSIVE SeqLess(_, _, _)
SeqLess(s, t, k) ==
  IF k > Len(t) THEN FALSE
  ELSE IF k > Len(s) THEN TRUE
  ELSE IF s[k] # t[k] THEN s[k] < t[k]
  ELSE SeqLess(s, t, k + 1)

\* strcmp(a.name, b.name) < 0
StrLess(a, b) == SeqLess(CStr(a, 0), CStr(b, 0), 1)

Least(es) ==
  CHOOSE k \in 1..Len(es) :
    /\ \A j \in 1..Len(es) : ~StrLess(es[j], es[k])
    /\ \A j \in 1..(k - 1) : StrLess(es[k], es[j])

RECURSIVE SortEntries(_)
SortFrom(es, least) ==
  <<es[least]>> \o SortEntries(SubSeq(es, 1, least - 1) \o SubSeq(es, least + 1, Len(es)))

\* std::sort by strcmp of the names
SortEntries(es) == IF Len(es) <= 1 THEN es ELSE SortFrom(es, Least(es))

\* the Name column, one C string per line
RECURSIVE NameColumn(_, _)
NameColumn(es, k) ==
  IF k > Len(es) THEN <<>> ELSE <<CStr(es[k], 0)>> \o NameColumn(es, k + 1)

LsEntries(m, es, oob) ==
  [m |-> m, msg |-> "Contents", oob |-> oob \/ es.oob,
   listing |-> NameColumn(SortEntries(es.entries), 1)]

LsOf(m, r, wild) ==
  IF r.ret = NotFound
  THEN [m |-> m, msg |-> "Error: Invalid path", oob |-> r.oob, listing |-> <<>>]
  ELSE IF Fld(readInode(m, r.ret), OFF_type) # 1
  THEN [m |-> m, msg |-> "Error: Not a directory", oob |-> r.oob, listing |-> <<>>]
  ELSE LsEntries(m, readDirectoryEntries(m, r.ret, wild), r.oob)

cmdLs(m, cur, path, wild) ==
  LsOf(m, IF path = <<>> THEN [ret |-> cur, oob |-> FALSE]
          ELSE getInodeFromPath(m, cur, path, wild), wild)

(***************************************************************************)
(* cmdCat.  Of what it prints the model keeps the number of bytes written  *)
(* from the blocks of the file: the sum of bytesToRead.                    *)
(***************************************************************************)
\* std::cout.write(blockData, bytesToRead); remainingBytes -= bytesToRead;
\* an address of 0 is skipped
CatBlock(s, b) ==
  IF b = 0 THEN s
  ELSE [remainingBytes |-> s.remainingBytes - Min(s.remainingBytes, BLOCK_SIZE),
        oob |-> s.oob \/ ~BlockInMem(b)]

RECURSIVE CatDirect(_, _, _)
CatDirect(s, inode, i) ==
  IF i >= DIRECT_BLOCKS \/ s.remainingBytes = 0 THEN s
  ELSE CatDirect(CatBlock(s, Fld(inode, OFF_addr + i)), inode, i + 1)

\* the loop over the slots of the indirect block
RECURSIVE CatChildren(_, _, _, _, _)
CatChildren(s, m, ib, i, wild) ==
  IF i >= SlotsPerBlock \/ s.remainingBytes = 0 THEN s
  ELSE CatChildren(CatBlock([remainingBytes |-> s.remainingBytes,
                             oob |-> s.oob \/ ~WordInMem(ib, i)],
                            BlkWord(m, ib, i, wild)),
                   m, ib, i + 1, wild)

CatIndirect(s, m, inode, wild) ==
  IF Fld(inode, OFF_ind) # 0 /\ s.remainingBytes > 0
  THEN CatChildren(s, m, Fld(inode, OFF_ind), 0, wild)
  ELSE s

\* `s` is the state after the two loops
CatFile(m, size, s, oob) ==
  [m |-> m, msg |-> "Contents", oob |-> oob \/ s.oob, bytes |-> size - s.remainingBytes]

CatOf(m, r, wild) ==
  IF r.ret = NotFound
  THEN [m |-> m, msg |-> "Error: File not found", oob |-> r.oob, bytes |-> 0]
  ELSE IF Fld(readInode(m, r.ret), OFF_type) # 0
  THEN [m |-> m, msg |-> "Error: Not a file", oob |-> r.oob, bytes |-> 0]
  ELSE CatFile(m, Fld(readInode(m, r.ret), OFF_size),
               CatIndirect(CatDirect([remainingBytes |-> Fld(readInode(m, r.ret), OFF_size),
                                      oob |-> FALSE],
                                     readInode(m, r.ret), 0),
                           m, readInode(m, r.ret), wild),
               r.oob)

cmdCat(m, cur, filename, wild) == CatOf(m, getInodeFromPath(m, cur, filename, wild), wild)

(***************************************************************************)
(* cmdSum.  The figures it prints, all taken from the superblock.          *)
(***************************************************************************)
cmdSum(m) ==
  [totalBlocks |-> W(m, SB_totalBlocks),
   freeBlocks |-> W(m, SB_freeBlocks),
   usedBlocks |-> U(W(m, SB_totalBlocks) - W(m, SB_freeBlocks)),
   totalInodes |-> W(m, SB_maxInodes),
   freeInodes |-> W(m, SB_freeInodes),
   usedInodes |-> U(W(m, SB_maxInodes) - W(m, SB_freeInodes))]

(***************************************************************************)
(* The shell:FileSystem::run reads one command per line and runs it to    *)
(* completion.  The arguments are drawn from small sets.                   *)
(***************************************************************************)
Paths ==
  { <<"/">>, <<".">>, <<"..">>, <<"x">>,
    <<"/", "a">>, <<"/", "a", "/", "b">>, <<"/", "a", "/", "x">>,
    <<"/", "a", "/", "..">>, <<"/", "a", "/", "b", "/", ".">> }

Sizes == {0, BLOCK_SIZE - 1, DIRECT_BLOCKS * BLOCK_SIZE + 1}

CopyPairs ==
  { <<<<"/", "a", "/", "x">>, <<"/", "a", "/", "b">>>>,
    <<<<"x">>, <<"b">>>> }

Command(cmd, path, size, dest) ==
  [cmd |-> cmd, path |-> path, size |-> size, dest |-> dest]

\* a command other than cd leaves the current directory alone, and only
\* ls lists names
Here(r) ==
  [m |-> r.m, msg |-> r.msg, oob |-> r.oob,
   cur |-> currentInodeNumber, path |-> currentPath, listing |-> <<>>, bytes |-> 0]

Listed(r) ==
  [m |-> r.m, msg |-> r.msg, oob |-> r.oob,
   cur |-> currentInodeNumber, path |-> currentPath, listing |-> r.listing, bytes |-> 0]

Moved(r) ==
  [m |-> r.m, msg |-> r.msg, oob |-> r.oob,
   cur |-> r.cur, path |-> r.path, listing |-> <<>>, bytes |-> 0]

\* cat reports the bytes it wrote
Dumped(r) ==
  [m |-> r.m, msg |-> r.msg, oob |-> r.oob,
   cur |-> currentInodeNumber, path |-> currentPath, listing |-> <<>>, bytes |-> r.bytes]

\* every failure message of the commands starts with "Error"
IsError(msg) == msg \notin {"", "Created file", "Removed file", "Created directory",
                            "Removed directory", "Contents", "Copied file"}

Completes(c, r) ==
  /\ memory' = r.m
  /\ currentInodeNumber' = r.cur
  /\ currentPath' = r.path
  /\ out' = [cmd |-> c.cmd, path |-> c.path, size |-> c.size, dest |-> c.dest,
             msg |-> r.msg, listing |-> r.listing, bytes |-> r.bytes]
  /\ crashed' = FALSE
  /\ errors' = IF IsError(r.msg) THEN errors + 1 ELSE errors

\* an access outside `memory` either faults, and the process dies without
\* saving, or reads some indeterminate word
Faults(c) ==
  /\ crashed' = TRUE
  /\ out' = [cmd |-> c.cmd, path |-> c.path, size |-> c.size, dest |-> c.dest,
             msg |-> "Segmentation fault", listing |-> <<>>, bytes |-> 0]
  /\ UNCHANGED <<memory, currentInodeNumber, currentPath, errors>>

\* rs[wild] is what the command does when wild reads yield `wild`; rs[0]
\* tells whether there is any such read
Settle(c, r, rs) ==
  IF r.oob
  THEN \/ Faults(c)
       \/ \E wild \in Indeterminate : Completes(c, rs[wild])
  ELSE Completes(c, r)

\* one command of a session of at most `limit` commands
StepWithin(c, rs, limit) ==
  /\ ~crashed
  /\ out.cmd # "exit"
  /\ steps < limit
  /\ errors < MaxErrors
  /\ steps' = steps + 1
  /\ UNCHANGED <<timeWords, disk>>
  /\ Settle(c, rs[0], rs)

Step(c, rs) == StepWithin(c, rs, MaxSteps) /\ UNCHANGED previous

\* the same, with the image the command started from kept in `previous`
Traced(c, rs, limit) == StepWithin(c, rs, limit) /\ previous' = memory

TouchRuns(path, size) ==
  [wild \in Indeterminate |-> Here(cmdTouch(memory, currentInodeNumber, path, size, wild))]
RmRuns(path) ==
  [wild \in Indeterminate |-> Here(cmdRm(memory, currentInodeNumber, path, wild))]
MkdirRuns(path) ==
  [wild \in Indeterminate |-> Here(cmdMkdir(memory, currentInodeNumber, path, wild))]
RmdirRuns(path) ==
  [wild \in Indeterminate |-> Here(cmdRmdir(memory, currentInodeNumber, path, wild))]
CdRuns(path) ==
  [wild \in Indeterminate |->
     Moved(cmdCd(memory, currentInodeNumber, currentPath, path, wild))]
LsRuns(path) ==
  [wild \in Indeterminate |-> Listed(cmdLs(memory, currentInodeNumber, path, wild))]
CpRuns(src, dest) ==
  [wild \in Indeterminate |->
     Here(cmdCopyFile(memory, currentInodeNumber, src, dest, wild))]
CatRuns(path) ==
  [wild \in Indeterminate |-> Dumped(cmdCat(memory, currentInodeNumber, path, wild))]

Touch ==
  \E path \in Paths, size \in Sizes :
    Step(Command("touch", path, size, <<>>), TouchRuns(path, size))

Rm == \E path \in Paths : Step(Command("rm", path, 0, <<>>), RmRuns(path))

Mkdir == \E path \in Paths : Step(Command("mkdir", path, 0, <<>>), MkdirRuns(path))

Rmdir == \E path \in Paths : Step(Command("rmdir", path, 0, <<>>), RmdirRuns(path))

Cd == \E path \in Paths : Step(Command("cd", path, 0, <<>>), CdRuns(path))

Ls == \E path \in Paths : Step(Command("ls", path, 0, <<>>), LsRuns(path))

Cp ==
  \E pair \in CopyPairs :
    Step(Command("cp", pair[1], 0, pair[2]), CpRuns(pair[1], pair[2]))

Init ==
  /\ timeWords \in {1, 2}
  /\ \E pad \in Indeterminate : memory = InitialImage(pad)
  /\ currentInodeNumber = 0
  /\ currentPath = <<"/">>
  /\ crashed = FALSE
  /\ out = [cmd |-> "", path |-> <<>>, size |-> 0, dest |-> <<>>,
            msg |-> "", listing |-> <<>>, bytes |-> 0]
  /\ steps = 0
  /\ errors = 0
  /\ disk = <<>>
  /\ previous = <<>>

Next == Touch \/ Rm \/ Mkdir \/ Rmdir \/ Cd \/ Ls \/ Cp

Spec == Init /\ [][Next]_vars

(***************************************************************************)
(* A session in the root directory that creates a few files and then       *)
(* creates and removes one more name, x: long enough to fill the root's    *)
(* directory block.                                                        *)
(***************************************************************************)
FillPaths == { <<"a">>, <<"b">>, <<"ab">>, <<"ba">> }

PairFill ==
  \E path \in FillPaths :
    Traced(Command("touch", path, 0, <<>>), TouchRuns(path, 0), MaxPairSteps)

PairTouch ==
  \E size \in Sizes :
    Traced(Command("touch", <<"x">>, size, <<>>), TouchRuns(<<"x">>, size), MaxPairSteps)

PairRm == Traced(Command("rm", <<"x">>, 0, <<>>), RmRuns(<<"x">>), MaxPairSteps)

PairMkdir == Traced(Command("mkdir", <<"x">>, 0, <<>>), MkdirRuns(<<"x">>), MaxPairSteps)

PairRmdir == Traced(Command("rmdir", <<"x">>, 0, <<>>), RmdirRuns(<<"x">>), MaxPairSteps)

PairCp ==
  Traced(Command("cp", <<"a">>, 0, <<"x">>), CpRuns(<<"a">>, <<"x">>), MaxPairSteps)

PairNext == PairFill \/ PairTouch \/ PairRm \/ PairMkdir \/ PairRmdir \/ PairCp

PairSpec == Init /\ [][PairNext]_vars

(***************************************************************************)
(* A session in the root directory that creates files of the sizes at the  *)
(* limits of cmdTouch, copies one and prints them: one block, one block    *)
(* more than the direct ones, the largest file and one byte more, and the  *)
(* sizes next to the largest unsigned int.                                 *)
(***************************************************************************)
maxBlocks == DIRECT_BLOCKS + SlotsPerBlock

EdgeSizes ==
  { BLOCK_SIZE, DIRECT_BLOCKS * BLOCK_SIZE, DIRECT_BLOCKS * BLOCK_SIZE + 1,
    maxBlocks * BLOCK_SIZE, maxBlocks * BLOCK_SIZE + 1,
    UINT_MOD - BLOCK_SIZE, UINT_MOD - BLOCK_SIZE + 1, UINT_MOD - 1 }

FilePaths == { <<"a">>, <<"b">> }

FileTouch ==
  \E path \in FilePaths, size \in EdgeSizes :
    Traced(Command("touch", path, size, <<>>), TouchRuns(path, size), MaxFileSteps)

FileCp ==
  Traced(Command("cp", <<"a">>, 0, <<"x">>), CpRuns(<<"a">>, <<"x">>), MaxFileSteps)

FileCat ==
  \E path \in FilePaths \cup { <<"x">> } :
    Traced(Command("cat", path, 0, <<>>), CatRuns(path), MaxFileSteps)

FileNext == FileTouch \/ FileCp \/ FileCat

FileSpec == Init /\ [][FileNext]_vars

(***************************************************************************)
(* A session that creates names of every kind in the root directory and in *)
(* a directory a: no name at all (the empty path, "/" and "a/"), "." and   *)
(* "..", the longest name an entry holds ("aa..a", MAX_FILENAME_LENGTH - 1 *)
(* chars) and one that is a char too long ("aa..ab").                      *)
(***************************************************************************)
NamePaths ==
  { <<>>, <<"/">>, <<"a", "/">>, <<"a">>, <<"b">>, <<"a", "/", "b">>,
    <<".">>, <<"..">>, <<"aa..a">>, <<"aa..ab">> }

NameTouch ==
  \E path \in NamePaths :
    Traced(Command("touch", path, 0, <<>>), TouchRuns(path, 0), MaxNameSteps)

NameMkdir ==
  \E path \in NamePaths :
    Traced(Command("mkdir", path, 0, <<>>), MkdirRuns(path), MaxNameSteps)

NameCp ==
  \E dest \in NamePaths :
    Traced(Command("cp", <<"/", "b">>, 0, dest), CpRuns(<<"/", "b">>, dest), MaxNameSteps)

NameCd ==
  \E path \in { <<"a">>, <<"..">> } :
    Traced(Command("cd", path, 0, <<>>), CdRuns(path), MaxNameSteps)

NameRmdir == Traced(Command("rmdir", <<".">>, 0, <<>>), RmdirRuns(<<".">>), MaxNameSteps)

NameNext == NameTouch \/ NameMkdir \/ NameCp \/ NameCd \/ NameRmdir

NameSpec == Init /\ [][NameNext]_vars

(***************************************************************************)
(* A session that copies the file /a to /b, before or after a directory    *)
(* /x was made, entered and removed, by its own name or as ".".            *)
(***************************************************************************)
CopyTouch ==
  \E size \in {0, BLOCK_SIZE, DIRECT_BLOCKS * BLOCK_SIZE} :
    Traced(Command("touch", <<"/", "a">>, size, <<>>), TouchRuns(<<"/", "a">>, size),
           MaxCopySteps)

CopyMkdir ==
  Traced(Command("mkdir", <<"/", "x">>, 0, <<>>), MkdirRuns(<<"/", "x">>), MaxCopySteps)

CopyCd ==
  \E path \in { <<"/", "x">>, <<"/">> } :
    Traced(Command("cd", path, 0, <<>>), CdRuns(path), MaxCopySteps)

CopyRmdir ==
  \E path \in { <<".">>, <<"/", "x">> } :
    Traced(Command("rmdir", path, 0, <<>>), RmdirRuns(path), MaxCopySteps)

CopyCp ==
  Traced(Command("cp", <<"/", "a">>, 0, <<"/", "b">>), CpRuns(<<"/", "a">>, <<"/", "b">>),
         MaxCopySteps)

CopyNext == CopyTouch \/ CopyMkdir \/ CopyCd \/ CopyRmdir \/ CopyCp

CopySpec == Init /\ [][CopyNext]_vars

(***************************************************************************)
(* Sessions one after the other: "exit" leaves run(), the destructor saves *)
(* the image, and the next process initialises an image and loads the file *)
(* over it.                                                                *)
(***************************************************************************)
Silent(cmd) ==
  [cmd |-> cmd, path |-> <<>>, size |-> 0, dest |-> <<>>,
   msg |-> "", listing |-> <<>>, bytes |-> 0]

\* cmd == "exit": break; ~FileSystem saves
Exit ==
  /\ ~crashed
  /\ out.cmd # "exit"
  /\ steps < MaxSessionSteps
  /\ steps' = steps + 1
  /\ disk' = saveFileSystem(memory)
  /\ out' = Silent("exit")
  /\ previous' = memory
  /\ UNCHANGED <<memory, currentInodeNumber, currentPath, timeWords, crashed, errors>>

\* FileSystem(): initializeFileSystem, then loadFileSystem
Start ==
  /\ out.cmd = "exit"
  /\ \E pad \in Indeterminate : memory' = loadFileSystem(InitialImage(pad), disk)
  /\ currentInodeNumber' = 0
  /\ currentPath' = <<"/">>
  /\ out' = Silent("")
  /\ previous' = memory
  /\ UNCHANGED <<timeWords, crashed, steps, errors, disk>>

SessionPaths == { <<"/", "a">>, <<"b">> }

SessionMkdir ==
  \E path \in SessionPaths :
    Traced(Command("mkdir", path, 0, <<>>), MkdirRuns(path), MaxSessionSteps)

SessionTouch ==
  \E size \in {0, BLOCK_SIZE} :
    Traced(Command("touch", <<"b">>, size, <<>>), TouchRuns(<<"b">>, size), MaxSessionSteps)

SessionCd ==
  Traced(Command("cd", <<"/", "a">>, 0, <<>>), CdRuns(<<"/", "a">>), MaxSessionSteps)

SessionLs ==
  Traced(Command("ls", <<"/">>, 0, <<>>), LsRuns(<<"/">>), MaxSessionSteps)

SessionNext == SessionMkdir \/ SessionTouch \/ SessionCd \/ SessionLs \/ Exit \/ Start

SessionSpec == Init /\ [][SessionNext]_vars

(***************************************************************************)
(* A session that creates and removes a file /a and a directory /b and     *)
(* asks for the summary.  `sum` changes nothing; what it printed is kept   *)
(* in out.sum.                                                             *)
(***************************************************************************)
SumSizes == {0, BLOCK_SIZE, 2 * BLOCK_SIZE, DIRECT_BLOCKS * BLOCK_SIZE + 1}

SumTouch ==
  \E size \in SumSizes :
    Traced(Command("touch", <<"/", "a">>, size, <<>>), TouchRuns(<<"/", "a">>, size),
           MaxSumSteps)

SumMkdir ==
  Traced(Command("mkdir", <<"/", "b">>, 0, <<>>), MkdirRuns(<<"/", "b">>), MaxSumSteps)

SumRm == Traced(Command("rm", <<"/", "a">>, 0, <<>>), RmRuns(<<"/", "a">>), MaxSumSteps)

\* cmd == "sum": cmdSum()
Sum ==
  /\ ~crashed
  /\ out.cmd # "sum"
  /\ steps < MaxSumSteps
  /\ steps' = steps + 1
  /\ out' = [cmd |-> "sum", path |-> <<>>, size |-> 0, dest |-> <<>>,
             msg |-> "File System Summary", listing |-> <<>>, bytes |-> 0,
             sum |-> cmdSum(memory)]
  /\ previous' = memory
  /\ UNCHANGED <<memory, currentInodeNumber, currentPath, timeWords, crashed, errors, disk>>

SumNext == SumTouch \/ SumMkdir \/ SumRm \/ Sum

SumSpec == Init /\ [][SumNext]_vars

(***************************************************************************)
(* A session that removes what it made: a file /a without blocks, with     *)
(* direct blocks or with an indirect block, and a directory /x that may    *)
(* have been entered, by its path or as ".".                               *)
(***************************************************************************)
RemoveTouch ==
  \E size \in {0, BLOCK_SIZE, DIRECT_BLOCKS * BLOCK_SIZE + 1} :
    Traced(Command("touch", <<"/", "a">>, size, <<>>), TouchRuns(<<"/", "a">>, size),
           MaxRemoveSteps)

RemoveMkdir ==
  Traced(Command("mkdir", <<"/", "x">>, 0, <<>>), MkdirRuns(<<"/", "x">>), MaxRemoveSteps)

RemoveCd ==
  Traced(Command("cd", <<"/", "x">>, 0, <<>>), CdRuns(<<"/", "x">>), MaxRemoveSteps)

RemoveRm ==
  Traced(Command("rm", <<"/", "a">>, 0, <<>>), RmRuns(<<"/", "a">>), MaxRemoveSteps)

RemoveRmdir ==
  \E path \in { <<".">>, <<"/", "x">> } :
    Traced(Command("rmdir", path, 0, <<>>), RmdirRuns(path), MaxRemoveSteps)

RemoveNext == RemoveTouch \/ RemoveMkdir \/ RemoveCd \/ RemoveRm \/ RemoveRmdir

RemoveSpec == Init /\ [][RemoveNext]_vars

(***************************************************************************)
(* The directory store called directly, as the commands call it.  `out`    *)
(* keeps the call and what it returned.                                    *)
(***************************************************************************)
Call(cmd, dir, name, inodeNumber) ==
  [cmd |-> cmd, dir |-> dir, name |-> name, inodeNumber |-> inodeNumber]

Returns(c, r) ==
  /\ memory' = r.m
  /\ out' = [cmd |-> c.cmd, dir |-> c.dir, name |-> c.name,
             inodeNumber |-> c.inodeNumber, ret |-> r.ret]
  /\ crashed' = FALSE

Breaks(c) ==
  /\ crashed' = TRUE
  /\ out' = [cmd |-> c.cmd, dir |-> c.dir, name |-> c.name,
             inodeNumber |-> c.inodeNumber, ret |-> FALSE]
  /\ UNCHANGED memory

\* one call in a session of at most `limit` steps; rs as in Settle
CallWithin(c, rs, limit) ==
  /\ ~crashed
  /\ steps < limit
  /\ errors < MaxErrors
  /\ steps' = steps + 1
  /\ previous' = memory
  /\ UNCHANGED <<currentInodeNumber, currentPath, timeWords, errors, disk>>
  /\ IF rs[0].oob
     THEN \/ Breaks(c)
          \/ \E wild \in Indeterminate : Returns(c, rs[wild])
     ELSE Returns(c, rs[0])

AddRuns(dir, name, inodeNumber) ==
  [wild \in Indeterminate |-> addDirectoryEntry(memory, dir, name, inodeNumber, wild)]
RemoveRuns(dir, name) ==
  [wild \in Indeterminate |-> removeDirectoryEntry(memory, dir, name, wild)]

(***************************************************************************)
(* A session that adds one entry after the other to a fresh directory:     *)
(* the root, or a directory a that was made and entered first.  The k-th   *)
(* command uses the k-th of FillNames.                                     *)
(***************************************************************************)
FillNames == <<"a", "b", "x", "ab", "ba", "bx", "xa", "xb", "abxa", "aa..a">>

FillMkdir ==
  /\ steps = 0
  /\ Traced(Command("mkdir", <<FillNames[1]>>, 0, <<>>), MkdirRuns(<<FillNames[1]>>),
            MaxFillSteps)

FillCd ==
  /\ steps = 1
  /\ out.cmd = "mkdir"
  /\ Traced(Command("cd", <<FillNames[1]>>, 0, <<>>), CdRuns(<<FillNames[1]>>), MaxFillSteps)

FillAdd ==
  \E inodeNumber \in {1, MAX_INODES - 1} :
    /\ steps < Len(FillNames)
    /\ CallWithin(Call("addDirectoryEntry", currentInodeNumber, FillNames[steps + 1],
                       inodeNumber),
                  AddRuns(currentInodeNumber, FillNames[steps + 1], inodeNumber),
                  MaxFillSteps)

FillNext == FillMkdir \/ FillCd \/ FillAdd

FillSpec == Init /\ [][FillNext]_vars

(***************************************************************************)
(* A session that first takes some blocks off the free list and then adds  *)
(* one entry after the other to the root, until the root needs a block     *)
(* that the free list cannot give.  The k-th call uses the k-th of         *)
(* ExhaustNames.                                                           *)
(***************************************************************************)
ExhaustNames == <<"a", "b", "x", "ab", "ba", "bx", "xa", "xb", "abxa", "aa", "bb", "xx">>

TakeRuns == [wild \in Indeterminate |-> [m |-> allocateBlock(memory).m,
                                         ret |-> allocateBlock(memory).ret,
                                         oob |-> FALSE]]

ExhaustTake ==
  /\ steps = 0 \/ out.cmd = "allocateBlock"
  /\ steps < DataBlocks - DIRECT_BLOCKS - 1
  /\ CallWithin(Call("allocateBlock", 0, "", 0), TakeRuns, MaxExhaustSteps)

ExhaustAdd ==
  \E inodeNumber \in {1, MAX_INODES - 1} :
    /\ steps < Len(ExhaustNames)
    /\ CallWithin(Call("addDirectoryEntry", 0, ExhaustNames[steps + 1], inodeNumber),
                  AddRuns(0, ExhaustNames[steps + 1], inodeNumber),
                  MaxExhaustSteps)

ExhaustNext == ExhaustTake \/ ExhaustAdd

ExhaustSpec == Init /\ [][ExhaustNext]_vars

(***************************************************************************)
(* The same session with calls of allocateBlock among the commands.        *)
(***************************************************************************)
ReuseTake == CallWithin(Call("allocateBlock", 0, "", 0), TakeRuns, MaxRemoveSteps)

ReuseNext == RemoveNext \/ ReuseTake

ReuseSpec == Init /\ [][ReuseNext]_vars

(***************************************************************************)
(* Short sessions of calls on the root's entries: add, remove and find of  *)
(* a few names, with inode numbers from both ends of [0, MAX_INODES).      *)
(***************************************************************************)
EntryNames == {"a", "b", "x"}
EntryNumbers == {0, 1, MAX_INODES - 1}

FindRuns(dir, name) ==
  [wild \in Indeterminate |-> [m |-> memory,
                               ret |-> findDirectoryEntry(memory, dir, name, wild).ret,
                               oob |-> findDirectoryEntry(memory, dir, name, wild).oob]]

EntryAdd ==
  \E name \in EntryNames, inodeNumber \in EntryNumbers :
    CallWithin(Call("addDirectoryEntry", 0, name, inodeNumber),
               AddRuns(0, name, inodeNumber), MaxEntrySteps)

EntryRemove ==
  \E name \in EntryNames :
    CallWithin(Call("removeDirectoryEntry", 0, name, 0), RemoveRuns(0, name), MaxEntrySteps)

EntryFind ==
  \E name \in EntryNames :
    CallWithin(Call("findDirectoryEntry", 0, name, 0), FindRuns(0, name), MaxEntrySteps)

EntryNext == EntryAdd \/ EntryRemove \/ EntryFind

EntrySpec == Init /\ [][EntryNext]_vars

(***************************************************************************)
(* A session that starts from a file somebody else wrote: a saved image    *)
(* whose free-block head and count are anything.  After the load come      *)
(* calls of allocateBlock and a touch that needs one block.                *)
(***************************************************************************)
CraftHeads == 0..(TOTAL_BLOCKS + 1)
CraftCounts == {0, 1, DataBlocks - 1}

Crafted(m, head, count) ==
  saveFileSystem(Put(Put(m, SB_firstFreeBlock, head), SB_freeBlocks, count))

CraftLoad ==
  \E head \in CraftHeads, count \in CraftCounts :
    /\ steps = 0
    /\ steps' = 1
    /\ disk' = Crafted(memory, head, count)
    /\ memory' = loadFileSystem(memory, Crafted(memory, head, count))
    /\ currentInodeNumber' = 0
    /\ currentPath' = <<"/">>
    /\ out' = Silent("")
    /\ previous' = memory
    /\ UNCHANGED <<timeWords, crashed, errors>>

CraftTake ==
  /\ steps > 0
  /\ CallWithin(Call("allocateBlock", 0, "", 0), TakeRuns, MaxCraftSteps)

CraftTouch ==
  /\ steps > 0
  /\ Traced(Command("touch", <<"/", "a">>, BLOCK_SIZE, <<>>),
            TouchRuns(<<"/", "a">>, BLOCK_SIZE), MaxCraftSteps)

CraftNext == CraftLoad \/ CraftTake \/ CraftTouch

CraftSpec == Init /\ [][CraftNext]_vars

(***************************************************************************)
(* The inode table called directly: writeInode with a record whose words   *)
(* all hold one value, allocateInode and deallocateInode.                  *)
(***************************************************************************)
InodeNumbers == 0..(MAX_INODES - 1)
InodeFill == {1, Now}

Filled(v) == SubSeq([k \in 1..SizeofInodeWords |-> v], 1, SizeofInodeWords)

WriteRuns(inodeNum, v) ==
  [wild \in Indeterminate |-> [m |-> writeInode(memory, inodeNum, Filled(v)),
                               ret |-> TRUE, oob |-> ~InodeInMem(inodeNum)]]

AllocateRuns == [wild \in Indeterminate |-> allocateInode(memory, wild)]

DeallocateRuns(inodeNum) ==
  [wild \in Indeterminate |-> [m |-> deallocateInode(memory, inodeNum),
                               ret |-> TRUE, oob |-> ~InodeInMem(inodeNum)]]

InodeWrite ==
  \E inodeNum \in InodeNumbers, v \in InodeFill :
    /\ steps < MaxInodeSteps
    /\ CallWithin(Call("writeInode", 0, "", inodeNum), WriteRuns(inodeNum, v), MaxInodeSteps)

InodeAllocate ==
  /\ steps < MaxInodeSteps
  /\ CallWithin(Call("allocateInode", 0, "", 0), AllocateRuns, MaxInodeSteps)

InodeDeallocate ==
  \E inodeNum \in InodeNumbers :
    /\ steps < MaxInodeSteps
    /\ CallWithin(Call("deallocateInode", 0, "", inodeNum), DeallocateRuns(inodeNum),
                  MaxInodeSteps)

InodeNext == InodeWrite \/ InodeAllocate \/ InodeDeallocate

InodeSpec == Init /\ [][InodeNext]_vars

(***************************************************************************)
(* A session of mkdir, cd and rmdir on /a and /a/b, with absolute and      *)
(* relative arguments of cd that hold `.` and `..` and a trailing slash.   *)
(***************************************************************************)
CdDirectories == { <<"/", "a">>, <<"/", "a", "/", "b">> }
CdArguments ==
  CdDirectories \cup
  { <<".">>, <<"..">>, <<"b">>, <<"a", "/">>, <<"/", "a", "/", "b", "/", "..">>,
    <<".", "/", "b", "/", ".">> }

CdMkdir ==
  \E path \in CdDirectories :
    Traced(Command("mkdir", path, 0, <<>>), MkdirRuns(path), MaxCdSteps)

CdCd ==
  \E path \in CdArguments :
    Traced(Command("cd", path, 0, <<>>), CdRuns(path), MaxCdSteps)

CdRmdir ==
  \E path \in CdDirectories :
    Traced(Command("rmdir", path, 0, <<>>), RmdirRuns(path), MaxCdSteps)

CdNext == CdMkdir \/ CdCd \/ CdRmdir

CdSpec == Init /\ [][CdNext]_vars

(***************************************************************************)
(* What the properties below speak about: the two free lists as chains     *)
(* walked from the superblock, the inodes that can be reached from the     *)
(* root through live directory entries, and the blocks those inodes hold.  *)
(***************************************************************************)
BlockNumbers == 0..(TOTAL_BLOCKS - 1)
DataBlockNumbers == FIRST_DATA_BLOCK..(TOTAL_BLOCKS - 1)

\* the free-block chain from b on is sound: every link stays among the data
\* blocks, none comes twice, and the chain ends after freeBlocks blocks
RECURSIVE BlockChainSound(_, _, _)
BlockChainSound(m, b, seen) ==
  IF b = 0 THEN Cardinality(seen) = W(m, SB_freeBlocks)
  ELSE /\ b \in DataBlockNumbers
       /\ b \notin seen
       /\ BlockChainSound(m, W(m, BlockBase(b)), seen \cup {b})

\* the same for the free-inode chain, linked through indirectBlock
RECURSIVE InodeChainSound(_, _, _)
InodeChainSound(m, n, seen) ==
  IF n = 0 THEN Cardinality(seen) = W(m, SB_freeInodes)
  ELSE /\ n \in InodeNumbers
       /\ n \notin seen
       /\ InodeChainSound(m, W(m, InodeBase(n) + OFF_ind), seen \cup {n})

\* the numbers met on a walk of a chain; the walk stops at 0, at a number
\* met before and at one whose link lies outside the image
RECURSIVE BlocksFrom(_, _, _)
BlocksFrom(m, b, seen) ==
  IF b = 0 \/ b \in seen THEN seen
  ELSE IF ~BlockInMem(b) THEN seen \cup {b}
  ELSE BlocksFrom(m, W(m, BlockBase(b)), seen \cup {b})

RECURSIVE InodesFrom(_, _, _)
InodesFrom(m, n, seen) ==
  IF n = 0 \/ n \in seen THEN seen
  ELSE IF ~InodeInMem(n) THEN seen \cup {n}
  ELSE InodesFrom(m, W(m, InodeBase(n) + OFF_ind), seen \cup {n})

FreeBlockList(m) == BlocksFrom(m, W(m, SB_firstFreeBlock), {})
FreeInodeList(m) == InodesFrom(m, W(m, SB_firstFreeInode), {})

\* the live entries of directory d, as readDirectoryEntries yields them
EntriesOf(m, d) == readDirectoryEntries(m, d, 0).entries
InodesNamed(es) == {es[k].inodeNumber : k \in 1..Len(es)}
HasEntry(es, n, inodeNum) ==
  \E k \in 1..Len(es) : NameEq(es[k], n) /\ es[k].inodeNumber = inodeNum
\* the entries that are neither "." nor ".."
IsChild(e) == ~NameEq(e, ".") /\ ~NameEq(e, "..")

\* the inodes reachable from the set S through live directory entries
RECURSIVE ReachableFrom(_, _)
Closed(m, S, next) == IF next = S THEN S ELSE ReachableFrom(m, next)
ReachableFrom(m, S) ==
  Closed(m, S, S \cup (InodeNumbers \cap UNION {InodesNamed(EntriesOf(m, d)) : d \in S}))

LiveInodes(m) == ReachableFrom(m, {0})
LiveDirectories(m) == {d \in LiveInodes(m) : Fld(readInode(m, d), OFF_type) = 1}

\* the blocks an inode holds: its direct blocks, its indirect block and
\* the blocks the indirect block names
SlotsOf(m, ib) ==
  IF ~BlockInMem(ib) THEN {}
  ELSE {W(m, BlockBase(ib) + k) : k \in 0..(SlotsPerBlock - 1)} \ {0}
HeldBy(m, ino) ==
  ({Fld(ino, OFF_addr + k) : k \in 0..(DIRECT_BLOCKS - 1)} \ {0})
  \cup (IF Fld(ino, OFF_ind) = 0 THEN {}
        ELSE {Fld(ino, OFF_ind)} \cup SlotsOf(m, Fld(ino, OFF_ind)))
UsedBlocks(m) == UNION {HeldBy(m, readInode(m, i)) : i \in LiveInodes(m)}

\* C1: after any sequence of commands on a fresh image, the walk of the
\* free-block list from superBlock->firstFreeBlock ends, meets only data
\* blocks (FIRST_DATA_BLOCK <= b < TOTAL_BLOCKS), meets none twice, and
\* meets exactly superBlock->freeBlocks of them.
C1_FreeBlockListSound ==
  BlockChainSound(memory, W(memory, SB_firstFreeBlock), {})

\* C2: after any sequence of commands on a fresh image, the walk of the
\* free-inode list from superBlock->firstFreeInode ends, meets only inodes
\* 1 .. MAX_INODES - 1, none twice and never inode 0, and meets exactly
\* superBlock->freeInodes of them.
C2_FreeInodeListSound ==
  InodeChainSound(memory, W(memory, SB_firstFreeInode), {})

\* C3: in every reachable state the blocks held by the inodes reachable
\* from the root are disjoint from the free-block list, and together with
\* the free-block list and blocks 0 .. FIRST_DATA_BLOCK - 1 they are all
\* the blocks: no block is both used and free, none is leaked.
C3_BlocksPartitioned ==
  /\ UsedBlocks(memory) \cap FreeBlockList(memory) = {}
  /\ UsedBlocks(memory) \cup FreeBlockList(memory) \cup (0..(FIRST_DATA_BLOCK - 1))
       = BlockNumbers

\* C4: in every reachable state every live entry of every directory
\* reachable from the root names an inode below MAX_INODES that is not on
\* the free-inode list.
C4_EntriesNameAllocatedInodes ==
  \A d \in LiveInodes(memory) :
    \A n \in InodesNamed(EntriesOf(memory, d)) :
      n \in InodeNumbers /\ n \notin FreeInodeList(memory)

\* C5: in every reachable state every live directory d, the root included,
\* has a live entry "." naming d and a live entry ".." naming its parent
\* (the root for the root itself).
C5_DotAndDotDot ==
  \A d \in LiveDirectories(memory) :
    /\ HasEntry(EntriesOf(memory, d), ".", d)
    /\ d = 0 => HasEntry(EntriesOf(memory, 0), "..", 0)
    /\ \A p \in LiveDirectories(memory) :
         \A k \in 1..Len(EntriesOf(memory, p)) :
           (IsChild(EntriesOf(memory, p)[k]) /\ EntriesOf(memory, p)[k].inodeNumber = d)
             => HasEntry(EntriesOf(memory, d), "..", p)

\* the step is a command that ran to its end
Ran(cmds) == steps' = steps + 1 /\ ~crashed' /\ out'.cmd \in cmds

\* the entries a directory shows, as a set of (name, inode number) pairs
EntriesIn(es) == {es[k] : k \in 1..Len(es)}
EntrySet(m, d) == EntriesIn(EntriesOf(m, d))
\* the block addresses of an inode: the direct ones and indirectBlock
Addresses(m, i) == SubSeq(readInode(m, i), OFF_addr + 1, OFF_ind + 1)

\* what a failed command must leave as it was, `live` being the inodes
\* reachable before it
SameOver(m, n, live) ==
  /\ W(n, SB_freeBlocks) = W(m, SB_freeBlocks)
  /\ W(n, SB_freeInodes) = W(m, SB_freeInodes)
  /\ LiveInodes(n) = live
  /\ \A d \in live : EntrySet(n, d) = EntrySet(m, d)
  /\ \A i \in live : Addresses(n, i) = Addresses(m, i)
SameNamespace(m, n) == n = m \/ SameOver(m, n, LiveInodes(m))

\* the step is one of the six commands, and it reported an error
FailedCommand ==
  Ran({"touch", "mkdir", "cp", "rm", "rmdir", "cd"}) /\ IsError(out'.msg)

\* C6: whenever touch, mkdir, cp, rm, rmdir or cd reports an error, the
\* state after it has the same free-block and free-inode counts, the same
\* live entries in every directory, the same block addresses in every live
\* inode and the same current directory as the state before it.
C6_ErrorsChangeNothing ==
  [][FailedCommand => (SameNamespace(memory, memory')
                       /\ currentInodeNumber' = currentInodeNumber)]_vars

\* the inode a path given to rmdir or rm stands for: the entry `basename`
\* of the directory `dirname`
EntryOf(m, p) ==
  IF p.parent = NotFound THEN NotFound
  ELSE findDirectoryEntry(m, p.parent, p.name, 0).ret
TargetOf(m, cur, path) == EntryOf(m, getParentInodeAndFilename(m, cur, path, 0))

IsDirectory(m, i) == i \in InodeNumbers /\ Fld(readInode(m, i), OFF_type) = 1
HasChild(m, d) == \E e \in EntrySet(m, d) : IsChild(e)

\* the step is an rmdir whose path stands for a directory with a child
RmdirOfNonEmpty ==
  /\ Ran({"rmdir"})
  /\ IsDirectory(memory, TargetOf(memory, currentInodeNumber, out'.path))
  /\ HasChild(memory, TargetOf(memory, currentInodeNumber, out'.path))

\* C7: rmdir of a directory that has a live entry other than "." and ".."
\* reports "Directory not empty" and leaves the image as it was, at every
\* depth of the tree.
C7_RmdirRefusesNonEmpty ==
  [][RmdirOfNonEmpty => (out'.msg = "Error: Directory not empty" /\ memory' = memory)]_vars

\* inode 0 is a directory and none of its blocks is on the free-block list
RootKept(m) ==
  /\ Fld(readInode(m, 0), OFF_type) = 1
  /\ HeldBy(m, readInode(m, 0)) \cap FreeBlockList(m) = {}

\* deallocateInode(0) leaves firstFreeInode = 0 with freeInodes raised
RootInodeFreed ==
  /\ W(memory', SB_firstFreeInode) = 0
  /\ W(memory', SB_freeInodes) > W(memory, SB_freeInodes)

\* C8: no command deallocates the root: no step passes inode 0 to
\* deallocateInode (which would leave firstFreeInode = 0 with freeInodes
\* raised), and after every step inode 0 is a directory none of whose
\* blocks is on the free-block list.
C8_RootNeverDeallocated == [][RootKept(memory') /\ ~RootInodeFreed]_vars

\* C9: resolving ".." from the root yields the root, and resolving ".."
\* from a live directory d yields the directory that holds d's entry, also
\* when that directory is the root.
C9_DotDotResolvesToParent ==
  /\ getInodeFromPath(memory, 0, <<"..">>, 0).ret = 0
  /\ \A p \in LiveDirectories(memory) :
       \A e \in EntrySet(memory, p) :
         (IsChild(e) /\ IsDirectory(memory, e.inodeNumber))
           => getInodeFromPath(memory, e.inodeNumber, <<"..">>, 0).ret = p

\* C10: on a fresh image, after mkdir /a, mkdir /a/b and cd /a/b (the only
\* three commands that make /a/b the current directory), ls .. prints
\* "Contents" and lists exactly ".", ".." and "b".
C10_LsDotDot ==
  (/\ steps = 4
   /\ ~crashed
   /\ out.cmd = "ls"
   /\ out.path = <<"..">>
   /\ currentPath = <<"/", "a", "/", "b">>)
    => (/\ out.msg = "Contents"
        /\ out.listing = <<NameChars("."), NameChars(".."), NameChars("b")>>)

\* the two counts of the superblock
Counts(m) == <<W(m, SB_freeBlocks), W(m, SB_freeInodes)>>

\* the last command succeeded with `done`, and the command that runs now is
\* cmd on the path that command made
Undoes(cmd, made, done) ==
  /\ out.msg = done
  /\ Ran({cmd})
  /\ out'.path = made

\* C11: whenever mkdir p has succeeded, an rmdir p that follows at once
\* succeeds and leaves freeBlocks and freeInodes of the superblock as they
\* were before the mkdir, also when the parent had no empty slot left in
\* its blocks.
C11_MkdirRmdirRestoresCounts ==
  [][Undoes("rmdir", out.path, "Created directory")
       => (out'.msg = "Removed directory" /\ Counts(memory') = Counts(previous))]_vars

\* C12: whenever touch p S has succeeded, an rm p that follows at once
\* succeeds and leaves freeBlocks and freeInodes of the superblock as they
\* were before the touch, for files without blocks, with direct blocks only
\* and with an indirect block.
C12_TouchRmRestoresCounts ==
  [][Undoes("rm", out.path, "Created file")
       => (out'.msg = "Removed file" /\ Counts(memory') = Counts(previous))]_vars

\* the fields of inode i and the content of the blocks it holds in image m
InodeFields(m, i) == SubSeq(readInode(m, i), 1, OFF_ind + 1)
BlockContent(m, b) == IF BlockInMem(b) THEN Words(m, BlockBase(b), BlockWords) ELSE <<>>
Holding(m, i) == HeldBy(m, readInode(m, i))

\* file i of image m is in image n as it was: same inode, same blocks with
\* the same content, none of them on a free list
FileKept(m, n, i) ==
  /\ InodeFields(n, i) = InodeFields(m, i)
  /\ \A b \in Holding(m, i) : BlockContent(n, b) = BlockContent(m, b)
  /\ i \notin FreeInodeList(n)
  /\ Holding(m, i) \cap FreeBlockList(n) = {}

SourceOf(m) == getInodeFromPath(m, currentInodeNumber, out.path, 0).ret

\* C13: whenever cp src dst has succeeded, an rm dst that follows at once
\* succeeds, leaves freeBlocks and freeInodes as they were before the copy,
\* and leaves the source's inode and blocks allocated and unchanged.
C13_CopyRmRestoresCounts ==
  [][Undoes("rm", out.dest, "Copied file")
       => /\ out'.msg = "Removed file"
          /\ Counts(memory') = Counts(previous)
          /\ FileKept(previous, memory', SourceOf(previous))]_vars


\* the number of blocks that hold `size` bytes, in unbounded arithmetic
BlocksFor(size) == (size + BLOCK_SIZE - 1) \div BLOCK_SIZE

\* the path names nothing yet in a directory that exists
NewName(m, cur, path) ==
  /\ getParentInodeAndFilename(m, cur, path, 0).parent # NotFound
  /\ TargetOf(m, cur, path) = NotFound

\* C14: a touch of a new name with a size that takes more than maxBlocks
\* blocks, up to the largest unsigned int, reports "File size too large"
\* and leaves the image as it was: no inode, no block, no entry.
C14_TooLargeFails ==
  [][(/\ Ran({"touch"})
      /\ BlocksFor(out'.size) > maxBlocks
      /\ NewName(memory, currentInodeNumber, out'.path))
       => (out'.msg = "Error: File size too large" /\ memory' = memory)]_vars


\* how many of the direct addresses of an inode, and of the slots of its
\* indirect block, are not 0
DirectCount(ino) ==
  Cardinality({k \in 0..(DIRECT_BLOCKS - 1) : Fld(ino, OFF_addr + k) # 0})
ChildCount(m, ino) ==
  IF Fld(ino, OFF_ind) = 0 THEN 0
  ELSE Cardinality({k \in 0..(SlotsPerBlock - 1) : BlkWord(m, Fld(ino, OFF_ind), k, 0) # 0})

\* the inode is a file of n blocks: min(n, D) direct ones, and an indirect
\* block with n - D children exactly when n > D
FileOfBlocks(m, ino, n) ==
  /\ Fld(ino, OFF_type) = 0
  /\ DirectCount(ino) = Min(n, DIRECT_BLOCKS)
  /\ (Fld(ino, OFF_ind) # 0) <=> (n > DIRECT_BLOCKS)
  /\ n > DIRECT_BLOCKS => ChildCount(m, ino) = n - DIRECT_BLOCKS

\* the step took one inode and n blocks, one more for an indirect block,
\* and at most one more for the parent directory
Consumed(m, n, blocks) ==
  /\ W(n, SB_freeInodes) = W(m, SB_freeInodes) - 1
  /\ W(m, SB_freeBlocks) - W(n, SB_freeBlocks)
       \in {blocks + (IF blocks > DIRECT_BLOCKS THEN 1 ELSE 0) + grown : grown \in {0, 1}}

\* C15: a touch that reports "Created file" leaves under its path a file
\* inode of the requested size with exactly the blocks that size takes,
\* n = ceil(size / BLOCK_SIZE): min(n, D) direct blocks, an indirect block
\* if and only if n > D, with n - D children; and it takes one inode and
\* n blocks, one more with an indirect block, and at most one more for
\* the parent directory.
C15_TouchShape ==
  [][(Ran({"touch"}) /\ out'.msg = "Created file")
       => (/\ TargetOf(memory', currentInodeNumber, out'.path) \in InodeNumbers
           /\ Fld(readInode(memory', TargetOf(memory', currentInodeNumber, out'.path)),
                  OFF_size) = out'.size
           /\ FileOfBlocks(memory',
                           readInode(memory',
                                     TargetOf(memory', currentInodeNumber, out'.path)),
                           BlocksFor(out'.size))
           /\ Consumed(memory, memory', BlocksFor(out'.size)))]_vars


\* the path whose last component a creating command adds
CreatedPath(o) == IF o.cmd = "cp" THEN o.dest ELSE o.path
BasenameOf(path) == Basename(path, LastSlash(path, Len(path)))
Creates == Ran({"touch", "mkdir", "cp"})

NoEntryNamed(m, n) ==
  \A d \in LiveDirectories(m) : \A e \in EntrySet(m, d) : ~NameEq(e, n)

\* C16: a touch, mkdir or cp whose target path has an empty basename (the
\* empty path, "/", "a/") reports an error and leaves the image as it was,
\* and after no command does a directory hold a live entry whose name is
\* the empty string.
C16_EmptyBasenameRefused ==
  [][/\ (Creates /\ BasenameOf(CreatedPath(out')) = "")
           => (IsError(out'.msg) /\ memory' = memory)
     /\ Ran({"touch", "mkdir", "cp", "cd", "rmdir"}) => NoEntryNamed(memory', "")]_vars


\* the names of the live entries of a directory, as C strings
NamesIn(es) == SubSeq([k \in 1..Len(es) |-> CStr(es[k], 0)], 1, Len(es))
DistinctAndShort(names) ==
  /\ \A j, k \in 1..Len(names) : j # k => names[j] # names[k]
  /\ \A k \in 1..Len(names) : Len(names[k]) <= MAX_FILENAME_LENGTH - 1
NamesSound(m) == \A d \in LiveDirectories(m) : DistinctAndShort(NamesIn(EntriesOf(m, d)))

SameEntries(m, n) ==
  /\ LiveDirectories(n) = LiveDirectories(m)
  /\ \A d \in LiveDirectories(m) : EntrySet(n, d) = EntrySet(m, d)

AlreadyExists ==
  {"Error: File already exists", "Error: Directory already exists",
   "Error: Destination file already exists"}

\* the step is a creation whose target exists already; for cp, of a source
\* that is a file
OntoExisting ==
  /\ Creates
  /\ TargetOf(memory, currentInodeNumber, CreatedPath(out')) # NotFound
  /\ out'.cmd = "cp" =>
       /\ getInodeFromPath(memory, currentInodeNumber, out'.path, 0).ret # NotFound
       /\ Fld(readInode(memory, getInodeFromPath(memory, currentInodeNumber,
                                                 out'.path, 0).ret), OFF_type) = 0

\* the step is a creation of a name of MAX_FILENAME_LENGTH chars or more
TooLong == Creates /\ NameLength(BasenameOf(CreatedPath(out'))) >= MAX_FILENAME_LENGTH

\* C17: after every command the live entries of each directory have
\* pairwise distinct names of at most MAX_FILENAME_LENGTH - 1 chars; a
\* touch, mkdir or cp onto a name that exists in the parent reports that
\* it exists and changes nothing, and one of a name of MAX_FILENAME_LENGTH
\* chars or more reports an error and leaves every directory's entries as
\* they were.
C17_NamesDistinctAndShort ==
  [][/\ Ran({"touch", "mkdir", "cp", "cd", "rmdir"}) => NamesSound(memory')
     /\ OntoExisting => (out'.msg \in AlreadyExists /\ memory' = memory)
     /\ TooLong => (IsError(out'.msg) /\ SameEntries(memory, memory'))]_vars


\* the inode a path resolves to before the step
Resolved(path) == getInodeFromPath(memory, currentInodeNumber, path, 0).ret

\* C18: a cat of a file writes exactly as many bytes from the file's
\* blocks as the size field of its inode says.
C18_CatEmitsSize ==
  [][(Ran({"cat"}) /\ out'.msg = "Contents")
       => out'.bytes = Fld(readInode(memory, Resolved(out'.path)), OFF_size)]_vars


\* the k-th block of a file, k from 0: a direct one, or a child of the
\* indirect block
BlockOfFile(m, ino, k) ==
  IF k < DIRECT_BLOCKS THEN Fld(ino, OFF_addr + k)
  ELSE IF Fld(ino, OFF_ind) = 0 THEN 0
  ELSE BlkWord(m, Fld(ino, OFF_ind), k - DIRECT_BLOCKS, 0)

\* inode d of image n is a copy of inode s of image m: a file of the same
\* size, with a block wherever s has one and nowhere else, no block in
\* common with s, and in each block the words of the block of s
CopyOf(m, s, n, d) ==
  /\ Fld(readInode(n, d), OFF_type) = 0
  /\ Fld(readInode(n, d), OFF_size) = Fld(readInode(m, s), OFF_size)
  /\ DirectCount(readInode(n, d)) = DirectCount(readInode(m, s))
  /\ (Fld(readInode(n, d), OFF_ind) # 0) <=> (Fld(readInode(m, s), OFF_ind) # 0)
  /\ ChildCount(n, readInode(n, d)) = ChildCount(m, readInode(m, s))
  /\ Holding(n, d) \cap Holding(m, s) = {}
  /\ \A k \in 0..(maxBlocks - 1) :
       BlockOfFile(m, readInode(m, s), k) # 0
         => /\ BlockOfFile(n, readInode(n, d), k) # 0
            /\ BlockContent(n, BlockOfFile(n, readInode(n, d), k))
                 = BlockContent(m, BlockOfFile(m, readInode(m, s), k))

\* inode i and its blocks are in image n what they are in image m
SameFile(m, n, i) ==
  /\ InodeFields(n, i) = InodeFields(m, i)
  /\ \A b \in Holding(m, i) : BlockContent(n, b) = BlockContent(m, b)

\* C19: after a cp that reports "Copied file", the destination path names
\* an inode other than the source's, taken from the free list, a file of
\* the source's size with as many direct blocks and indirect children as
\* the source, none of them a block of the source, each holding the words
\* of the source's block; the source's inode and blocks are as before.
C19_CopyIsFresh ==
  [][(Ran({"cp"}) /\ out'.msg = "Copied file")
       => (/\ TargetOf(memory', currentInodeNumber, out'.dest) \in InodeNumbers
           /\ TargetOf(memory', currentInodeNumber, out'.dest) # Resolved(out'.path)
           /\ TargetOf(memory', currentInodeNumber, out'.dest) \in FreeInodeList(memory)
           /\ CopyOf(memory, Resolved(out'.path), memory',
                     TargetOf(memory', currentInodeNumber, out'.dest))
           /\ SameFile(memory, memory', Resolved(out'.path)))]_vars


\* the step is the start of a session after an exit
Restarted == out.cmd = "exit" /\ out'.cmd = ""

AbsolutePaths == { <<"/">>, <<"/", "a">>, <<"/", "a", "/", "b">>, <<"/", "b">> }

\* what ls, cat and path resolution give for an absolute path, and the
\* counts that sum prints
Readings(m) ==
  [path \in AbsolutePaths |->
     <<cmdLs(m, 0, path, 0).listing, cmdLs(m, 0, path, 0).msg,
       cmdCat(m, 0, path, 0).bytes, cmdCat(m, 0, path, 0).msg,
       getInodeFromPath(m, 0, path, 0).ret, Counts(m)>>]

\* C20: the session that starts after an exit has the image the exited
\* session had, word for word, and the root as current directory; ls, cat,
\* sum and the resolution of an absolute path give what they gave at the
\* exit.
C20_SaveLoadRoundTrip ==
  [][Restarted
       => (/\ memory' = memory
           /\ currentInodeNumber' = 0
           /\ currentPath' = <<"/">>
           /\ Readings(memory') = Readings(memory))]_vars

\* a session that started from the file lists in the root the directory a
\* that the session before it made
C20_Witness ==
  /\ out.cmd = "ls" /\ out.path = <<"/">> /\ out.msg = "Contents"
  /\ disk # <<>> /\ memory = disk
  /\ \E k \in 1..Len(out.listing) : out.listing[k] = NameChars("a")
  /\ IsDirectory(memory, TargetOf(memory, 0, <<"/", "a">>))

\* the data blocks held by the directories reachable from the root
DirectoryBlocks(m) == UNION {Holding(m, d) : d \in LiveDirectories(m)}

\* the first command of the session was touch /a with a size of two blocks,
\* and the command that runs now is sum
SumAfterTouch ==
  /\ steps = 1
  /\ out.cmd = "touch" /\ out.path = <<"/", "a">> /\ out.size = 2 * BLOCK_SIZE
  /\ out'.cmd = "sum"

\* C21: on a fresh image, after touch /a with a size of two blocks, the
\* used-block figure that sum prints is the number of data blocks the
\* directories hold plus 2 (the file's data blocks; it has no indirect
\* block).
C21_SumAfterTouch ==
  [][SumAfterTouch
       => out'.sum.usedBlocks = Cardinality(DirectoryBlocks(memory')) + 2]_vars

\* the step is an rm or an rmdir that reported success
Removes == Ran({"rm", "rmdir"}) /\ out'.msg \in {"Removed file", "Removed directory"}

\* the place of a call in the order the removal is to follow
Rank(step) ==
  CASE step = "entry" -> 0
    [] step = "direct" -> 1
    [] step = "child" -> 2
    [] step = "indirect" -> 3
    [] step = "inode" -> 4

BlockCalls(log) == {k \in 1..Len(log) : log[k].step \in {"direct", "child", "indirect"}}

\* the entry first, the inode last, the blocks between them in the order
\* direct, children, indirect
InOrder(log) ==
  /\ log[1].step = "entry"
  /\ log[Len(log)].step = "inode"
  /\ \A j, k \in 1..Len(log) : j < k => Rank(log[j].step) <= Rank(log[k].step)
  /\ \A k \in 2..(Len(log) - 1) : k \in BlockCalls(log)

\* the call put a data block that was not free on the free list, once
PushedOnce(e) ==
  /\ e.arg \in DataBlockNumbers
  /\ e.arg \notin FreeBlockList(e.before)
  /\ e.arg \in FreeBlockList(e.after)
  /\ W(e.after, SB_freeBlocks) = W(e.before, SB_freeBlocks) + 1

\* at every read of a child address the indirect block was an allocated
\* data block
ReadWhileAllocated(log) ==
  \A j, k \in BlockCalls(log) :
    (log[j].step = "child" /\ log[k].step = "indirect")
      => (log[k].arg \in DataBlockNumbers /\ log[k].arg \notin FreeBlockList(log[j].before))

Orderly(log) ==
  /\ InOrder(log)
  /\ \A k \in BlockCalls(log) : PushedOnce(log[k])
  /\ \A j, k \in BlockCalls(log) : j # k => log[j].arg # log[k].arg
  /\ ReadWhileAllocated(log)

\* C22: every rm and rmdir that succeeds removes the parent's entry first,
\* then frees the nonzero direct blocks, then the nonzero children of the
\* indirect block, then the indirect block, and releases the inode last;
\* each of these blocks is pushed on the free list once, and the children
\* are read while the indirect block is still allocated.
C22_RemovalOrder ==
  [][Removes
       => \E wild \in Indeterminate :
            /\ Image(RemovalLog(memory, currentInodeNumber, out'.path, wild)) = memory'
            /\ Orderly(RemovalLog(memory, currentInodeNumber, out'.path, wild))]_vars

\* the number of addDirectoryEntry calls made on the current directory since
\* it was created, the two of initializeDirectory included: in the root
\* every step of the session is one more call, and a directory entered at
\* the second step has had its two calls then
FillCalls(cur, n) == IF cur = 0 THEN n + 2 ELSE n

\* the slots of block b that hold a name
SlotsWritten(m, b) ==
  {j \in 0..(EntriesPerBlock - 1) : EntryAt(m, b, j, 0).name # Zeros(NameWords)}

\* after `calls` calls the first block of directory d has that many slots
\* written, and d has no second block
FirstBlockHolds(m, d, calls) ==
  /\ Cardinality(SlotsWritten(m, Fld(readInode(m, d), OFF_addr))) = calls
  /\ Fld(readInode(m, d), OFF_addr + 1) = 0

\* C25: in a fresh directory (the root, or one made by mkdir) the first
\* EntriesPerBlock calls of addDirectoryEntry, "." and ".." included, fill
\* as many distinct slots of the first data block, and the call after them
\* is the one that allocates the second direct block.
C25_SecondBlockAtNextCall ==
  [][(~crashed' /\ out'.cmd \in {"addDirectoryEntry", "cd"})
       => /\ FillCalls(currentInodeNumber', steps') <= EntriesPerBlock
               => FirstBlockHolds(memory', currentInodeNumber',
                                  FillCalls(currentInodeNumber', steps'))
          /\ FillCalls(currentInodeNumber', steps') = EntriesPerBlock + 1
               => /\ Fld(readInode(memory, currentInodeNumber), OFF_addr + 1) = 0
                  /\ Fld(readInode(memory', currentInodeNumber), OFF_addr + 1)
                       \in DataBlockNumbers]_vars

\* C23: a call of addDirectoryEntry that returns false leaves the count of
\* free blocks, the directory's direct addresses and its indirect field as
\* they were when it was called.
AddFails == out'.cmd = "addDirectoryEntry" /\ ~crashed' /\ out'.ret = FALSE

BlockFields(m, dir) ==
  <<W(m, SB_freeBlocks),
    SubSeq(readInode(m, dir), OFF_addr + 1, OFF_addr + DIRECT_BLOCKS),
    Fld(readInode(m, dir), OFF_ind)>>

C23_FailedAddReleases ==
  [][AddFails => BlockFields(memory', out'.dir) = BlockFields(memory, out'.dir)]_vars

\* C24: after addDirectoryEntry(d, n, i) has returned true for a name that d
\* did not hold, findDirectoryEntry(d, n) gives i; and a successful add of
\* another name leaves what findDirectoryEntry gives for every name that d
\* held as it was.
AddSucceeds == out'.cmd = "addDirectoryEntry" /\ ~crashed' /\ out'.ret = TRUE

Found(m, dir, name) == findDirectoryEntry(m, dir, name, 0).ret

AddedIsFound ==
  Found(memory, out'.dir, out'.name) = NotFound
    => Found(memory', out'.dir, out'.name) = out'.inodeNumber

OthersKept ==
  \A name \in EntryNames \ {out'.name} :
    Found(memory, out'.dir, name) # NotFound
      => Found(memory', out'.dir, name) = Found(memory, out'.dir, name)

C24_AddThenFind == [][AddSucceeds => AddedIsFound /\ OthersKept]_vars

\* the direct blocks of directory dir are all allocated and hold no slot
\* whose inode number is 0
DirectFull(m, dir) ==
  \A i \in 0..(DIRECT_BLOCKS - 1) :
    /\ Fld(readInode(m, dir), OFF_addr + i) # 0
    /\ FreeSlot(m, Fld(readInode(m, dir), OFF_addr + i), 0, 0) < 0

IndirectOf(m, dir) == Fld(readInode(m, dir), OFF_ind)
FirstChild(m, dir) == BlkWord(m, IndirectOf(m, dir), 0, 0)

\* the call took block ib off the free list as the indirect block of out'.dir
\* and one more block as its first child, and the entry is the child's first
StoredInNewChild ==
  /\ IndirectOf(memory', out'.dir) = W(memory, SB_firstFreeBlock)
  /\ IndirectOf(memory', out'.dir) \in DataBlockNumbers
  /\ FirstChild(memory', out'.dir) \in DataBlockNumbers \ {IndirectOf(memory', out'.dir)}
  /\ W(memory', SB_freeBlocks) = W(memory, SB_freeBlocks) - 2
  /\ NameEq(EntryAt(memory', FirstChild(memory', out'.dir), 0, 0), out'.name)
  /\ EntryAt(memory', FirstChild(memory', out'.dir), 0, 0).inodeNumber = out'.inodeNumber
  /\ \A i \in 0..(DIRECT_BLOCKS - 1) :
       Fld(readInode(memory', out'.dir), OFF_addr + i)
         = Fld(readInode(memory, out'.dir), OFF_addr + i)

AddCalled == out'.cmd = "addDirectoryEntry" /\ ~crashed'

\* C26: a call of addDirectoryEntry that returns true on a directory whose
\* direct blocks are all allocated and full, and that has no indirect
\* block yet, allocates the indirect block and one child block and stores
\* the entry in the child; and no call gives a directory an indirect block
\* while a direct address is 0 or a direct block has a free slot.
C26_IndirectWhenDirectFull ==
  [][AddCalled =>
       /\ (out'.ret = TRUE /\ DirectFull(memory, out'.dir) /\ IndirectOf(memory, out'.dir) = 0
             => StoredInNewChild)
       /\ (IndirectOf(memory, out'.dir) = 0 /\ IndirectOf(memory', out'.dir) # 0
             => DirectFull(memory, out'.dir))]_vars

\* an entry has just been stored in the first child of a new indirect block
C26_Witness ==
  /\ out.cmd = "addDirectoryEntry" /\ out.ret = TRUE /\ ~crashed
  /\ DirectFull(previous, out.dir) /\ IndirectOf(previous, out.dir) = 0
  /\ IndirectOf(memory, out.dir) \in DataBlockNumbers
  /\ EntryAt(memory, FirstChild(memory, out.dir), 0, 0).inodeNumber = out.inodeNumber

\* the directory that the rm or rmdir running now removes
RemovedNow(d) ==
  Removes /\ getInodeFromPath(memory, currentInodeNumber, out'.path, 0).ret = d

\* C27: across every step, a directory that is there before and after and
\* is not the one the step removes addresses every data block it addressed
\* before, and the step puts none of those blocks on the free list.
C27_FootprintKept ==
  [][\A d \in LiveDirectories(memory) \cap LiveDirectories(memory') :
       ~RemovedNow(d) =>
         /\ Holding(memory, d) \subseteq Holding(memory', d)
         /\ Holding(memory, d) \cap FreeBlockList(memory') \subseteq FreeBlockList(memory)]_vars

\* C28: allocateBlock, called when the free-block count is not 0 and the
\* head of the free list is not 0 but is no data block, returns 0 and
\* changes nothing; and whatever it returns other than 0 is a data block.
Takes == out'.cmd = "allocateBlock" /\ ~crashed'

HeadOutside(m) ==
  /\ W(m, SB_freeBlocks) # 0
  /\ W(m, SB_firstFreeBlock) # 0
  /\ W(m, SB_firstFreeBlock) \notin DataBlockNumbers

C28_HeadOutsideRefused ==
  [][Takes =>
       /\ (HeadOutside(memory) => out'.ret = 0 /\ memory' = memory)
       /\ (out'.ret # 0 => out'.ret \in DataBlockNumbers)]_vars

\* the inode that the call running now writes: the argument of writeInode
\* and deallocateInode, the result of allocateInode
Written ==
  IF out'.cmd = "allocateInode" THEN out'.ret ELSE out'.inodeNumber

WritesInode ==
  /\ out'.cmd \in {"writeInode", "allocateInode", "deallocateInode"}
  /\ ~crashed'
  /\ Written < MAX_INODES

SlotOf(i) == InodeBase(i)..(InodeBase(i) + InodeWords - 1)

\* C29: writeInode, allocateInode and deallocateInode change no word past
\* the superblock other than the words of the slot of the inode they
\* write: every other inode reads as before, the first data block is as
\* before, and the indirect field of the inode lies inside its slot.
C29_WritesStayInSlot ==
  [][WritesInode =>
       /\ \A w \in (BlockWords..(MemWords - 1)) \ SlotOf(Written) :
            W(memory', w) = W(memory, w)
       /\ \A j \in InodeNumbers \ {Written} : InodeFields(memory', j) = InodeFields(memory, j)
       /\ BlockContent(memory', FIRST_DATA_BLOCK) = BlockContent(memory, FIRST_DATA_BLOCK)
       /\ InodeBase(Written) + OFF_ind \in SlotOf(Written)]_vars

\* cd ran and printed no error
CdSucceeds == out'.cmd = "cd" /\ ~crashed' /\ out'.msg = ""

\* `/`, or `/` and names with one `/` between them: no `.`, no `..`, no
\* empty name, no slash at the end
NormalForm(path) ==
  /\ path = <<"/">> \o JoinComponents(parsePath(path), 1)
  /\ \A k \in 1..Len(path) : path[k] \notin {"", ".", ".."}

\* C30: right after a cd that succeeded, currentPath is in normal form and
\* getInodeFromPath, started at the root, takes it to currentInodeNumber.
C30_PathNamesCurrent ==
  [][CdSucceeds =>
       /\ NormalForm(currentPath')
       /\ getInodeFromPath(memory', 0, currentPath', 0).ret = currentInodeNumber']_vars

\* the image is the one initializeFileSystem has just made
JustInitialised == steps = 0 /\ disk = <<>>

\* C31: when initializeFileSystem has returned, the superblock holds
\* freeBlocks = TOTAL_BLOCKS - FIRST_DATA_BLOCK, freeInodes = MAX_INODES - 1,
\* firstFreeBlock = FIRST_DATA_BLOCK and firstFreeInode = 1, and every data
\* block links to the next one, the last to 0.
C31_FreshSuperBlock ==
  JustInitialised =>
    /\ W(memory, SB_freeBlocks) = TOTAL_BLOCKS - FIRST_DATA_BLOCK
    /\ W(memory, SB_freeInodes) = MAX_INODES - 1
    /\ W(memory, SB_firstFreeBlock) = FIRST_DATA_BLOCK
    /\ W(memory, SB_firstFreeInode) = 1
    /\ \A b \in DataBlockNumbers :
         W(memory, BlockBase(b)) = IF b = TOTAL_BLOCKS - 1 THEN 0 ELSE b + 1

\* C32: the size of every directory that can be reached from the root is
\* sizeof(DirectoryEntry) times the number of its entries whose inode
\* number is not 0.
C32_SizeCountsLiveEntries ==
  \A d \in LiveDirectories(memory) :
    Fld(readInode(memory, d), OFF_size) = SizeofDirectoryEntry * Len(EntriesOf(memory, d))

\* the places where inode i is named: the entries other than "." and ".."
\* of the directories that can be reached from the root
ChildSlots(es, i) == {k \in 1..Len(es) : IsChild(es[k]) /\ es[k].inodeNumber = i}
NamedIn(m, dirs, i) == UNION {{d} \X ChildSlots(EntriesOf(m, d), i) : d \in dirs}
NamedAt(m, i) == NamedIn(m, LiveDirectories(m), i)

FreeOrNamedOnce(m, free, dirs) ==
  \A i \in InodeNumbers \ {0} :
    IF i \in free
    THEN NamedIn(m, dirs, i) = {}
    ELSE Cardinality(NamedIn(m, dirs, i)) = 1

\* C33: every inode other than the root is either on the free-inode list
\* and named nowhere, or off the list and named by exactly one entry.
C33_FreeOrNamedOnce ==
  FreeOrNamedOnce(memory, FreeInodeList(memory), LiveDirectories(memory))

\* C34: the current directory is a directory, is not on the free-inode
\* list and can be reached from the root.
C34_CurrentDirectoryLive ==
  /\ Fld(readInode(memory, currentInodeNumber), OFF_type) = 1
  /\ currentInodeNumber \notin FreeInodeList(memory)
  /\ currentInodeNumber \in LiveInodes(memory)

\* every block number inode record ino holds, place by place: the direct
\* slots, the indirect field and the slots of the indirect block
ChildWords(m, ib) ==
  IF ib = 0 \/ ~BlockInMem(ib) THEN <<>> ELSE Words(m, BlockBase(ib), SlotsPerBlock)
IsAddress(w) == w # 0
AddressesIn(m, ino) ==
  SelectSeq(SubSeq(ino, OFF_addr + 1, OFF_ind + 1) \o ChildWords(m, Fld(ino, OFF_ind)),
            IsAddress)

\* the same for all inodes from i on that are not in the set `free`, one
\* after the other
RECURSIVE AddressesFrom(_, _, _, _)
AddressesFrom(m, free, i, acc) ==
  IF i >= MAX_INODES THEN acc
  ELSE AddressesFrom(m, free, i + 1,
                     IF i \in free THEN acc ELSE acc \o AddressesIn(m, readInode(m, i)))

\* the block numbers held by the inodes in use: those that can be reached
\* from the root and are not on the free-inode list
Addressed(m) ==
  AddressesFrom(m, FreeInodeList(m) \cup (InodeNumbers \ LiveInodes(m)), 0, <<>>)
Range(s) == {s[k] : k \in 1..Len(s)}
NoBlockTwice(s) == Cardinality(Range(s)) = Len(s)

\* C35: after every step no block number stands in two places among the
\* direct slots, indirect fields and indirect-block slots of the inodes in
\* use, and a block that allocateBlock returns was not held by an inode in
\* use when it was called.
C35_NoBlockAddressedTwice ==
  [][/\ NoBlockTwice(Addressed(memory'))
     /\ (out'.cmd = "allocateBlock" /\ ~crashed' /\ out'.ret # 0
           => out'.ret \notin Range(Addressed(memory)))]_vars
==============================================================================
